---- MODULE Spec2Model ----
(***************************************************************************)
(* The MCDM ranking and normalization engine (mcdmEngine, fuzzyMath):      *)
(* the four normalization strategies, the ten ranking methods, the method  *)
(* dispatcher calculateMCDM and fuzzyTOPSIS.                                *)
(*                                                                         *)
(* Numbers.  A JavaScript number is modelled as a pair <<n, d>>:           *)
(*   d > 0   the rational n/d in lowest terms,                             *)
(*   <<1,0>> +Infinity,  <<-1,0>> -Infinity,  <<0,0>> NaN,                 *)
(*   <<0,-1>> the value undefined (an array read past the end).            *)
(* +, -, * and / are exact on rationals and follow IEEE 754 on the special *)
(* values, without the rounding of the 53-bit mantissa; Math.sqrt and      *)
(* fractional Math.pow round down to the grid 1/SqrtGrid.  Where rounding  *)
(* decides the outcome the numbers are doubles (see Binary64 below).       *)
(*                                                                         *)
(* Arrays.  The rows of a matrix are objects on a heap: a matrix is a      *)
(* sequence of row references, so that copying a matrix (fresh rows) and   *)
(* sharing its rows are different things, as they are in the source.       *)
(***************************************************************************)
EXTENDS Integers, Sequences, FiniteSets, TLC

VARIABLES heap, matrix, weights, directions, options, call, result, prev, pc

vars == <<heap, matrix, weights, directions, options, call, result, prev, pc>>

(***************************************************************************)
(* Bounds of the model.                                                    *)
(***************************************************************************)
MaxAlts == 3
MaxCrit == 2
MaxVal == 2
PermCrit == 3
DispatchAlts == 2
DimAlts == 2
MaxMonoVal == 5
MaxScaleVal == 3
MaxVikorVal == 3
MaxSingleVal == 4
MaxTopsisVal == 3
MaxCrisp == 12
MaxExpertDim == 2
MaxTermLen == 3
MaxKeys == 2
MaxRequests == 2
MaxSensCrit == 3
SqrtGrid == 16

(***************************************************************************)
(* Number arithmetic                                                       *)
(***************************************************************************)
NaN == <<0, 0>>
PosInf == <<1, 0>>
NegInf == <<-1, 0>>
Undef == <<0, -1>>
Zero == <<0, 1>>
One == <<1, 1>>

Abs(i) == IF i < 0 THEN -i ELSE i
Sign(i) == IF i < 0 THEN -1 ELSE IF i > 0 THEN 1 ELSE 0

RECURSIVE GCD(_, _)
GCD(a, b) == IF b = 0 THEN a ELSE GCD(b, a % b)

\* the rational n/d, d # 0, in lowest terms with a positive denominator
Rat(n, d) ==
    LET g == GCD(Abs(n), Abs(d))
    IN  IF d < 0 THEN <<(0 - n) \div g, (0 - d) \div g>> ELSE <<n \div g, d \div g>>

Num(i) == <<i, 1>>

\* ToNumber: undefined becomes NaN, a number is itself
ToNum(x) == IF x[2] < 0 THEN NaN ELSE x

IsNaN(x) == x[2] < 0 \/ (x[2] = 0 /\ x[1] = 0)
IsInf(x) == x[2] = 0 /\ x[1] # 0
IsFinite(x) == x[2] > 0

\* JavaScript truthiness of a number or undefined: 0, NaN and undefined are falsy
Truthy(x) == ~IsNaN(x) /\ x[1] # 0

\* x || c
OrElse(x, c) == IF Truthy(x) THEN x ELSE c

(***************************************************************************)
(* Binary64.  Where the rounding of a result decides an outcome, a finite  *)
(* non-zero number is held as the double it is: <<s, 1, m, e>> stands for  *)
(* s * m * 2^e with s in {-1, 1} and m a 53-bit mantissa, written as a     *)
(* sequence of limbs (base 2^15, least significant first).  Zero, NaN and  *)
(* the infinities keep the encoding above.  Every operation rounds to      *)
(* nearest, ties to even; the exponent range is not bounded.  The methods  *)
(* computed on doubles are SAW and MOORA (SAW64, MOORA64 below).           *)
(***************************************************************************)
LimbBase == 2 ^ 15

IsF64(x) == Len(x) = 4

RECURSIVE BNorm(_)
BNorm(a) == IF Len(a) > 0 /\ a[Len(a)] = 0 THEN BNorm(SubSeq(a, 1, Len(a) - 1)) ELSE a

RECURSIVE BNat(_)
BNat(n) == IF n = 0 THEN <<>> ELSE <<n % LimbBase>> \o BNat(n \div LimbBase)

BDigit(a, i) == IF i <= Len(a) THEN a[i] ELSE 0

RECURSIVE BAddC(_, _, _, _)
BAddC(a, b, i, c) ==
    IF i > Len(a) /\ i > Len(b) THEN (IF c = 0 THEN <<>> ELSE <<c>>)
    ELSE LET t == BDigit(a, i) + BDigit(b, i) + c
         IN  <<t % LimbBase>> \o BAddC(a, b, i + 1, t \div LimbBase)
BAdd(a, b) == BAddC(a, b, 1, 0)

\* a - b for a >= b
RECURSIVE BSubC(_, _, _, _)
BSubC(a, b, i, c) ==
    IF i > Len(a) THEN <<>>
    ELSE LET t == a[i] - BDigit(b, i) - c
         IN  IF t < 0 THEN <<t + LimbBase>> \o BSubC(a, b, i + 1, 1)
             ELSE <<t>> \o BSubC(a, b, i + 1, 0)
BSub(a, b) == BNorm(BSubC(a, b, 1, 0))

\* -1, 0 or 1 as a < b, a = b or a > b
RECURSIVE BCmpFrom(_, _, _)
BCmpFrom(a, b, i) ==
    IF i = 0 THEN 0
    ELSE IF a[i] < b[i] THEN -1
    ELSE IF a[i] > b[i] THEN 1
    ELSE BCmpFrom(a, b, i - 1)
BCmp(a, b) ==
    IF Len(a) < Len(b) THEN -1
    ELSE IF Len(a) > Len(b) THEN 1
    ELSE BCmpFrom(a, b, Len(a))

RECURSIVE BMulSmallC(_, _, _, _)
BMulSmallC(a, d, i, c) ==
    IF i > Len(a) THEN (IF c = 0 THEN <<>> ELSE <<c>>)
    ELSE LET t == a[i] * d + c
         IN  <<t % LimbBase>> \o BMulSmallC(a, d, i + 1, t \div LimbBase)
BMulSmall(a, d) == IF d = 0 THEN <<>> ELSE BMulSmallC(a, d, 1, 0)

BShiftLimbs(a, k) == IF a = <<>> THEN <<>> ELSE [i \in 1..k |-> 0] \o a

RECURSIVE BMulFrom(_, _, _)
BMulFrom(a, b, i) ==
    IF i > Len(b) THEN <<>>
    ELSE BAdd(BShiftLimbs(BMulSmall(a, b[i]), i - 1), BMulFrom(a, b, i + 1))
BMul(a, b) == BMulFrom(a, b, 1)

\* a * 2^k
BShl(a, k) == BShiftLimbs(BMulSmall(a, 2 ^ (k % 15)), k \div 15)

\* floor(a / d) for 0 < d < LimbBase, from the top limb down
RECURSIVE BDivSmallFrom(_, _, _, _)
BDivSmallFrom(a, d, i, r) ==
    IF i = 0 THEN <<>>
    ELSE LET t == r * LimbBase + a[i]
         IN  BDivSmallFrom(a, d, i - 1, t % d) \o <<t \div d>>
\* floor(a / 2^k)
BShr(a, k) ==
    LET rest == SubSeq(a, (k \div 15) + 1, Len(a))
    IN  BNorm(BDivSmallFrom(rest, 2 ^ (k % 15), Len(rest), 0))

RECURSIVE BitLen(_)
BitLen(n) == IF n = 0 THEN 0 ELSE 1 + BitLen(n \div 2)
BBits(a) == IF a = <<>> THEN 0 ELSE (Len(a) - 1) * 15 + BitLen(a[Len(a)])

\* bit i (from 1, least significant) of a
BBit(a, i) == (BDigit(a, ((i - 1) \div 15) + 1) \div (2 ^ ((i - 1) % 15))) % 2

\* the largest d in lo..hi with b * d <= r
RECURSIVE BDigitSearch(_, _, _, _)
BDigitSearch(r, b, lo, hi) ==
    IF lo = hi THEN lo
    ELSE LET mid == (lo + hi + 1) \div 2
         IN  IF BCmp(BMulSmall(b, mid), r) <= 0 THEN BDigitSearch(r, b, mid, hi)
             ELSE BDigitSearch(r, b, lo, mid - 1)

\* long division: the quotient and the remainder of a by b, limb i of a downwards
RECURSIVE BDivModFrom(_, _, _, _, _)
BDivModFrom(a, b, i, q, r) ==
    IF i = 0 \/ Len(q) < 0 THEN [q |-> BNorm(q), r |-> r]
    ELSE LET r2 == BNorm(<<a[i]>> \o r)
             d == BDigitSearch(r2, b, 0, LimbBase - 1)
         IN  BDivModFrom(a, b, i - 1, <<d>> \o q, BSub(r2, BMulSmall(b, d)))
BDivMod(a, b) == BDivModFrom(a, b, Len(a), <<>>, <<>>)

\* the largest digit d with (r2 + d) * d <= rem, where r2 is 2 * LimbBase * root
RECURSIVE BSqrtDigit(_, _, _, _)
BSqrtDigit(rem, r2, lo, hi) ==
    IF lo = hi THEN lo
    ELSE LET mid == (lo + hi + 1) \div 2
         IN  IF BCmp(BMulSmall(BAdd(r2, <<mid>>), mid), rem) <= 0
             THEN BSqrtDigit(rem, r2, mid, hi)
             ELSE BSqrtDigit(rem, r2, lo, mid - 1)

\* floor(sqrt(a)), one limb of the root for every two limbs of a, pair p downwards
RECURSIVE BSqrtFrom(_, _, _, _)
BSqrtFrom(a, p, r, rem) ==
    IF p = 0 \/ Len(r) < 0 \/ Len(rem) < 0 THEN r
    ELSE LET rem2 == BNorm(<<BDigit(a, 2 * p - 1), BDigit(a, 2 * p)>> \o rem)
             r2 == BShiftLimbs(BMulSmall(r, 2), 1)
             d == BSqrtDigit(rem2, r2, 0, LimbBase - 1)
         IN  BSqrtFrom(a, p - 1, BNorm(<<d>> \o r),
                       BSub(rem2, BMulSmall(BAdd(r2, BNat(d)), d)))
BSqrt(a) == BSqrtFrom(a, (Len(a) + 1) \div 2, <<>>, <<>>)

\* a mantissa q of 53 or 54 bits, as a double
RoundCarry(s, q, e) ==
    IF BBits(q) > 53 THEN <<s, 1, BShr(q, 1), e + 1>> ELSE <<s, 1, q, e>>

\* q is big without its sh low bits; c compares those bits with one half:
\* to nearest, a tie to even
RoundUp(s, q, e, c, sticky) ==
    RoundCarry(s, IF c > 0 \/ (c = 0 /\ (sticky \/ BBit(q, 1) = 1))
                  THEN BAdd(q, <<1>>) ELSE q, e)

RoundBits(s, big, e, sticky, n) ==
    IF n <= 53 THEN <<s, 1, BShl(big, 53 - n), e - (53 - n)>>
    ELSE CHOOSE r \in {RoundUp(s, q, e + (n - 53),
                               BCmp(BSub(big, BShl(q, n - 53)), BShl(<<1>>, n - 54)),
                               sticky) : q \in {BShr(big, n - 53)}} : TRUE

\* s * big * 2^e (plus a little more when sticky) rounded to 53 bits
Round64(s, big, e, sticky) ==
    CHOOSE r \in {RoundBits(s, b, e, sticky, BBits(b)) : b \in {big}} : TRUE

\* the double nearest to the rational n/d (a number literal, or an integer)
F64(x) ==
    IF x[2] <= 0 THEN x
    ELSE IF x[1] = 0 THEN <<0, 1>>
    ELSE CHOOSE r \in {Round64(Sign(x[1]), qr.q, 0 - (60 + BitLen(x[2])), qr.r # <<>>) :
                       qr \in {BDivMod(BShl(BNat(Abs(x[1])), 60 + BitLen(x[2])),
                                       BNat(x[2]))}} : TRUE

\* |a| < |b| for doubles a, b
MagLess(a, b) == a[4] < b[4] \/ (a[4] = b[4] /\ BCmp(a[3], b[3]) < 0)

\* hi + lo for doubles with the exponent of hi not below that of lo; x is the
\* mantissa of hi at the exponent of lo: exact, then rounded once
AddAligned(hi, lo, x) ==
    IF hi[1] = lo[1] THEN Round64(hi[1], BAdd(x, lo[3]), lo[4], FALSE)
    ELSE IF BCmp(x, lo[3]) = 0 THEN <<0, 1>>
    ELSE IF BCmp(x, lo[3]) > 0 THEN Round64(hi[1], BSub(x, lo[3]), lo[4], FALSE)
    ELSE Round64(lo[1], BSub(lo[3], x), lo[4], FALSE)
AddOrdered(hi, lo) ==
    IF hi[4] - lo[4] > 64 THEN hi
    ELSE CHOOSE r \in {AddAligned(hi, lo, x) : x \in {BShl(hi[3], hi[4] - lo[4])}} : TRUE

\* a + b, a * b, a / b, a < b and Math.sqrt(a) on doubles and zero
Add64(a, b) ==
    CHOOSE r \in {IF x[1] = 0 THEN y
                  ELSE IF y[1] = 0 THEN x
                  ELSE IF x[4] >= y[4] THEN AddOrdered(x, y)
                  ELSE AddOrdered(y, x) : x \in {a}, y \in {b}} : TRUE

Mul64(a, b) ==
    CHOOSE r \in {IF x[1] = 0 \/ y[1] = 0 THEN <<0, 1>>
                  ELSE Round64(x[1] * y[1], BMul(x[3], y[3]), x[4] + y[4], FALSE) :
                  x \in {a}, y \in {b}} : TRUE

\* for b # 0
Div64(a, b) ==
    CHOOSE r \in {IF x[1] = 0 THEN <<0, 1>>
                  ELSE CHOOSE q \in {Round64(x[1] * y[1], qr.q, x[4] - y[4] - 56,
                                             qr.r # <<>>) :
                                     qr \in {BDivMod(BShl(x[3], 56), y[3])}} : TRUE :
                  x \in {a}, y \in {b}} : TRUE

Lt64(a, b) ==
    IF a[1] # b[1] THEN a[1] < b[1]
    ELSE IF a[1] = 0 THEN FALSE
    ELSE IF a[1] > 0 THEN MagLess(a, b)
    ELSE MagLess(b, a)

\* the root of m * 2^k with e - k even, rounded once
Sqrt64Of(x, k) ==
    CHOOSE r \in {CHOOSE q \in {Round64(1, root, (x[4] - k) \div 2,
                                        BCmp(BMul(root, root), big) # 0) :
                                root \in {BSqrt(big)}} : TRUE :
                  big \in {BShl(x[3], k)}} : TRUE
\* for a >= 0
Sqrt64(a) ==
    CHOOSE r \in {IF x[1] = 0 THEN <<0, 1>>
                  ELSE Sqrt64Of(x, IF (x[4] - 58) % 2 = 0 THEN 58 ELSE 59) :
                  x \in {a}} : TRUE

Neg64(a) == IF a[1] = 0 THEN a ELSE <<0 - a[1], 1, a[3], a[4]>>

One64 == F64(One)

Neg(x) == IF IsNaN(x) THEN NaN ELSE <<0 - x[1], x[2]>>

Add(a, b) ==
    IF IsNaN(a) \/ IsNaN(b) THEN NaN
    ELSE IF IsInf(a) /\ IsInf(b) THEN (IF a[1] = b[1] THEN a ELSE NaN)
    ELSE IF IsInf(a) THEN a
    ELSE IF IsInf(b) THEN b
    ELSE LET g == GCD(a[2], b[2])
         IN  Rat(a[1] * (b[2] \div g) + b[1] * (a[2] \div g), (a[2] \div g) * b[2])

Sub(a, b) == Add(a, Neg(b))

Mul(a, b) ==
    IF IsNaN(a) \/ IsNaN(b) THEN NaN
    ELSE IF IsInf(a) \/ IsInf(b)
         THEN (IF a[1] = 0 \/ b[1] = 0 THEN NaN ELSE <<Sign(a[1]) * Sign(b[1]), 0>>)
    ELSE LET g1 == GCD(Abs(a[1]), b[2])
             g2 == GCD(Abs(b[1]), a[2])
         IN  <<(a[1] \div g1) * (b[1] \div g2), (a[2] \div g2) * (b[2] \div g1)>>

Div(a, b) ==
    IF IsNaN(a) \/ IsNaN(b) THEN NaN
    ELSE IF IsInf(b) THEN (IF IsInf(a) THEN NaN ELSE Zero)
    ELSE IF b[1] = 0
         THEN (IF a[1] = 0 THEN NaN ELSE <<Sign(a[1]), 0>>)
    ELSE IF IsInf(a) THEN <<Sign(a[1]) * Sign(b[1]), 0>>
    ELSE Mul(a, IF b[1] < 0 THEN <<0 - b[2], 0 - b[1]>> ELSE <<b[2], b[1]>>)

\* comparison of two non-negative fractions without multiplying (Euclid)
RECURSIVE FracLess(_, _, _, _)
FracLess(n1, d1, n2, d2) ==
    LET q1 == n1 \div d1
        q2 == n2 \div d2
        r1 == n1 % d1
        r2 == n2 % d2
    IN  IF q1 # q2 THEN q1 < q2
        ELSE IF r2 = 0 THEN FALSE
        ELSE IF r1 = 0 THEN TRUE
        ELSE FracLess(d2, r2, d1, r1)

\* a < b; false when either is NaN (a double is compared with doubles and 0)
Lt(a, b) ==
    IF IsNaN(a) \/ IsNaN(b) THEN FALSE
    ELSE IF IsInf(a) THEN a[1] < 0 /\ b # a
    ELSE IF IsInf(b) THEN b[1] > 0
    ELSE IF a[1] < 0 /\ b[1] >= 0 THEN TRUE
    ELSE IF a[1] >= 0 /\ b[1] < 0 THEN FALSE
    ELSE IF IsF64(a) \/ IsF64(b) THEN Lt64(a, b)
    ELSE IF a[1] >= 0 THEN FracLess(a[1], a[2], b[1], b[2])
    ELSE FracLess(0 - b[1], b[2], 0 - a[1], a[2])

Gt(a, b) == Lt(b, a)
Le(a, b) == ~IsNaN(a) /\ ~IsNaN(b) /\ ~Lt(b, a)
\* a === b on numbers: NaN equals nothing
NumEq(a, b) == ~IsNaN(a) /\ ~IsNaN(b) /\ a = b

AbsNum(x) == IF IsNaN(x) THEN NaN ELSE <<Abs(x[1]), x[2]>>

\* Math.max(a, b) and Math.min(a, b)
Max2(a, b) == IF IsNaN(a) \/ IsNaN(b) THEN NaN ELSE IF Lt(a, b) THEN b ELSE a
Min2(a, b) == IF IsNaN(a) \/ IsNaN(b) THEN NaN ELSE IF Lt(b, a) THEN b ELSE a

RECURSIVE FoldMax(_, _, _)
FoldMax(s, i, acc) == IF i > Len(s) THEN acc ELSE FoldMax(s, i + 1, Max2(acc, ToNum(s[i])))
RECURSIVE FoldMin(_, _, _)
FoldMin(s, i, acc) == IF i > Len(s) THEN acc ELSE FoldMin(s, i + 1, Min2(acc, ToNum(s[i])))
RECURSIVE FoldSum(_, _, _)
FoldSum(s, i, acc) == IF i > Len(s) THEN acc ELSE FoldSum(s, i + 1, Add(acc, s[i]))

\* Math.max(...s): -Infinity on no arguments; Math.min(...s): +Infinity
MathMax(s) == FoldMax(s, 1, NegInf)
MathMin(s) == FoldMin(s, 1, PosInf)
\* s.reduce((a, b) => a + b, 0)
Sum(s) == FoldSum(s, 1, Zero)

\* the largest a in lo..hi with (a/SqrtGrid)^2 <= n/d, for n, d > 0
RECURSIVE RootSearch(_, _, _, _)
RootSearch(lo, hi, n, d) ==
    IF lo = hi THEN lo
    ELSE LET mid == (lo + hi + 1) \div 2
         IN  IF FracLess(n, d, mid * mid, SqrtGrid * SqrtGrid)
             THEN RootSearch(lo, mid - 1, n, d)
             ELSE RootSearch(mid, hi, n, d)

\* Math.sqrt(x)
Sqrt(x) ==
    IF IsNaN(x) THEN NaN
    ELSE IF x[1] < 0 THEN NaN
    ELSE IF IsInf(x) THEN PosInf
    ELSE IF x[1] = 0 THEN Zero
    ELSE Rat(RootSearch(0, SqrtGrid * ((x[1] \div x[2]) + 1), x[1], x[2]), SqrtGrid)

RECURSIVE IntPow(_, _)
IntPow(b, k) == IF k = 0 THEN 1 ELSE b * IntPow(b, k - 1)

\* the largest a in lo..hi with (a/SqrtGrid)^q <= n/d, for n, d, q > 0
RECURSIVE NthRootSearch(_, _, _, _, _)
NthRootSearch(lo, hi, n, d, q) ==
    IF lo = hi THEN lo
    ELSE LET mid == (lo + hi + 1) \div 2
         IN  IF FracLess(n, d, IntPow(mid, q), IntPow(SqrtGrid, q))
             THEN NthRootSearch(lo, mid - 1, n, d, q)
             ELSE NthRootSearch(mid, hi, n, d, q)

\* b ^ (p/q) for a finite b > 0 and a finite exponent p/q # 0
PosPow(b, e) ==
    LET p == Abs(e[1])
        base == IF e[1] < 0 THEN <<b[2], b[1]>> ELSE b
        t == <<IntPow(base[1], p), IntPow(base[2], p)>>
    IN  IF e[2] = 1 THEN t
        ELSE Rat(NthRootSearch(0, SqrtGrid * ((t[1] \div t[2]) + 1), t[1], t[2], e[2]),
                 SqrtGrid)

\* Math.pow(b, e)
Pow(b, e) ==
    IF IsNaN(e) THEN NaN
    ELSE IF e[1] = 0 THEN One
    ELSE IF IsNaN(b) THEN NaN
    ELSE IF IsInf(e)
         THEN (IF AbsNum(b) = One THEN NaN
               ELSE IF Lt(One, AbsNum(b)) = (e[1] > 0) THEN PosInf ELSE Zero)
    ELSE IF IsInf(b)
         THEN (IF e[1] < 0 THEN Zero
               ELSE IF b[1] < 0 /\ e[2] = 1 /\ e[1] % 2 = 1 THEN NegInf ELSE PosInf)
    ELSE IF b[1] = 0 THEN (IF e[1] > 0 THEN Zero ELSE PosInf)
    ELSE IF b[1] < 0
         THEN (IF e[2] # 1 THEN NaN
               ELSE IF e[1] % 2 = 1 THEN Neg(PosPow(AbsNum(b), e))
               ELSE PosPow(AbsNum(b), e))
    ELSE PosPow(b, e)

(***************************************************************************)
(* Arrays and the heap of rows                                             *)
(***************************************************************************)
\* an array held as a value: its elements are computed once, when it is built
Arr(s) == s \o <<>>

\* s[j], undefined past the end
Get(s, j) == IF j \in DOMAIN s THEN s[j] ELSE Undef

\* directions[j]
Dir(dirs, j) == IF j \in DOMAIN dirs THEN dirs[j] ELSE "undefined"

\* weights[j] || 0
WeightOr0(w, j) == OrElse(Get(w, j), Zero)

\* the matrix (rows of cells) that a sequence of row references denotes
Deref(h, refs) == Arr([i \in 1..Len(refs) |-> h[refs[i]]])

\* matrix[i][j]
Cell(m, i, j) == Get(m[i], j)

\* matrix[0]?.length || 0
NumCrit(m) == IF Len(m) = 0 THEN 0 ELSE Len(m[1])

\* matrix.map(row => row[j])
Column(m, j) == Arr([i \in 1..Len(m) |-> Cell(m, i, j)])

\* matrix.map(row => row[j] || 0)
ColumnOr0(m, j) == Arr([i \in 1..Len(m) |-> OrElse(Cell(m, i, j), Zero)])

\* mutant: matrix.map(row => row), the rows of the input shared
ShareRows(h, refs) == [heap |-> h, refs |-> refs]

\* matrix.map(row => [...row]): fresh rows holding the same cells
CopyRows(h, refs) ==
    [heap |-> h \o Arr([i \in 1..Len(refs) |-> h[refs[i]]]),
     refs |-> Arr([i \in 1..Len(refs) |-> Len(h) + i])]

\* the loops normalized[i][j] = ... over the rows that c.refs names
StoreRows(c, vals) ==
    [heap |-> Arr([a \in 1..Len(c.heap) |->
                  IF \E i \in 1..Len(c.refs) : c.refs[i] = a
                  THEN vals[CHOOSE i \in 1..Len(c.refs) : c.refs[i] = a]
                  ELSE c.heap[a]]),
     refs |-> c.refs]

\* a row written for j < numCrit keeps any cells it had beyond numCrit
RowsOf(m, f(_, _)) ==
    Arr([i \in 1..Len(m) |->
        Arr([j \in 1..(IF Len(m[i]) > NumCrit(m) THEN Len(m[i]) ELSE NumCrit(m)) |->
            IF j <= NumCrit(m) THEN f(i, j) ELSE m[i][j]])])

(***************************************************************************)
(* Normalization                                                           *)
(***************************************************************************)
vectorCells(m) ==
    LET sumSquares == Arr([j \in 1..NumCrit(m) |->
            OrElse(Sqrt(Sum(Arr([i \in 1..Len(m) |->
                       Mul(ColumnOr0(m, j)[i], ColumnOr0(m, j)[i])]))), One)])
    IN  RowsOf(m, LAMBDA i, j : Div(ToNum(Cell(m, i, j)), sumSquares[j]))

\* mutant: a minimize column divides the cell by the column minimum
linearMaxCells_inverted(m, dirs) ==
    LET maxVal == Arr([j \in 1..NumCrit(m) |-> OrElse(MathMax(ColumnOr0(m, j)), One)])
        minVal == Arr([j \in 1..NumCrit(m) |->
            OrElse(MathMin(SelectSeq(ColumnOr0(m, j), LAMBDA v : Lt(Zero, v))),
                   <<1, 1000>>)])
    IN  RowsOf(m, LAMBDA i, j :
            IF Dir(dirs, j) = "max"
            THEN Div(ToNum(Cell(m, i, j)), maxVal[j])
            ELSE IF Cell(m, i, j) # Zero
                 THEN Div(ToNum(Cell(m, i, j)), minVal[j])
                 ELSE Zero)

linearMaxCells(m, dirs) ==
    LET maxVal == Arr([j \in 1..NumCrit(m) |-> OrElse(MathMax(ColumnOr0(m, j)), One)])
        minVal == Arr([j \in 1..NumCrit(m) |->
            OrElse(MathMin(SelectSeq(ColumnOr0(m, j), LAMBDA v : Lt(Zero, v))),
                   <<1, 1000>>)])
    IN  RowsOf(m, LAMBDA i, j :
            IF Dir(dirs, j) = "max"
            THEN Div(ToNum(Cell(m, i, j)), maxVal[j])
            ELSE IF Cell(m, i, j) # Zero
                 THEN Div(minVal[j], ToNum(Cell(m, i, j)))
                 ELSE Zero)

minMaxCells(m, dirs) ==
    LET maxVal == Arr([j \in 1..NumCrit(m) |-> MathMax(ColumnOr0(m, j))])
        minVal == Arr([j \in 1..NumCrit(m) |-> MathMin(ColumnOr0(m, j))])
        range == Arr([j \in 1..NumCrit(m) |-> OrElse(Sub(maxVal[j], minVal[j]), One)])
    IN  RowsOf(m, LAMBDA i, j :
            IF Dir(dirs, j) = "max"
            THEN Div(Sub(ToNum(Cell(m, i, j)), minVal[j]), range[j])
            ELSE Div(Sub(maxVal[j], ToNum(Cell(m, i, j))), range[j]))

sumCells(m) ==
    LET colSum == Arr([j \in 1..NumCrit(m) |-> OrElse(Sum(ColumnOr0(m, j)), One)])
    IN  RowsOf(m, LAMBDA i, j : Div(ToNum(Cell(m, i, j)), colSum[j]))

\* Normalization.vector / linearMax / minMax / sum: copy the rows, then write them
Normalization_vector(h, refs, dirs) ==
    StoreRows(CopyRows(h, refs), vectorCells(Deref(h, refs)))
Normalization_linearMax(h, refs, dirs) ==
    StoreRows(CopyRows(h, refs), linearMaxCells(Deref(h, refs), dirs))
Normalization_minMax(h, refs, dirs) ==
    StoreRows(CopyRows(h, refs), minMaxCells(Deref(h, refs), dirs))
Normalization_sum(h, refs, dirs) ==
    StoreRows(CopyRows(h, refs), sumCells(Deref(h, refs)))

(***************************************************************************)
(* Ranking methods.  Each returns the heap it leaves, the scores, and      *)
(* whether it threw; the ranking is the sort of the scores (see Rankings). *)
(***************************************************************************)
RECURSIVE FoldProd(_, _, _)
FoldProd(s, i, acc) == IF i > Len(s) THEN acc ELSE FoldProd(s, i + 1, Mul(acc, s[i]))

\* keys are what the method sorts: the scores, except in VIKOR
Returned(h, scores) == [heap |-> h, scores |-> scores, keys |-> scores, error |-> FALSE]
\* a TypeError leaves the method without a result
Thrown(h) == [heap |-> h, scores |-> <<>>, keys |-> <<>>, error |-> TRUE]

\* row.reduce((sum, val, j) => sum + val * (weights[j] || 0), 0)
WeightedSum(row, w) == Sum(Arr([j \in 1..Len(row) |-> Mul(ToNum(row[j]), WeightOr0(w, j))]))

\* mutant: every criterion is normalized as a minimize criterion
SAW_costOnly(h, refs, w, dirs) ==
    LET n == Normalization_linearMax(h, refs, <<>>)
    IN  Returned(n.heap, Arr([i \in 1..Len(n.refs) |-> WeightedSum(n.heap[n.refs[i]], w)]))

SAW(h, refs, w, dirs) ==
    LET n == Normalization_linearMax(h, refs, dirs)
        normalized == Deref(n.heap, n.refs)
    IN  Returned(n.heap, Arr([i \in 1..Len(normalized) |-> WeightedSum(normalized[i], w)]))

WPM(h, refs, w, dirs) ==
    LET m == Deref(h, refs)
        power(j) == IF Dir(dirs, j) = "max" THEN Get(w, j) ELSE Neg(Get(w, j))
    IN  Returned(h, Arr([i \in 1..Len(m) |->
            FoldProd(Arr([j \in 1..Len(m[i]) |->
                         Pow(OrElse(m[i][j], <<1, 1000>>), power(j))]), 1, One)]))

TOPSIS(h, refs, w, dirs) ==
    LET numAlts == Len(refs)
        numCrit == NumCrit(Deref(h, refs))
        n == Normalization_vector(h, refs, dirs)
        normalized == Deref(n.heap, n.refs)
        weighted == Arr([i \in 1..numAlts |-> Arr([j \in 1..Len(normalized[i]) |->
                        Mul(normalized[i][j], WeightOr0(w, j))])])
        pis == Arr([j \in 1..numCrit |->
                   IF Dir(dirs, j) = "max" THEN MathMax(Column(weighted, j))
                   ELSE MathMin(Column(weighted, j))])
        nis == Arr([j \in 1..numCrit |->
                   IF Dir(dirs, j) = "max" THEN MathMin(Column(weighted, j))
                   ELSE MathMax(Column(weighted, j))])
        sq(x) == Mul(x, x)
        dPlus == Arr([i \in 1..numAlts |-> Sqrt(Sum(Arr([j \in 1..numCrit |->
                     sq(Sub(ToNum(Cell(weighted, i, j)), pis[j]))])))])
        dMinus == Arr([i \in 1..numAlts |-> Sqrt(Sum(Arr([j \in 1..numCrit |->
                     sq(Sub(ToNum(Cell(weighted, i, j)), nis[j]))])))])
    IN  Returned(n.heap, Arr([i \in 1..numAlts |->
            Div(dMinus[i], Add(Add(dPlus[i], dMinus[i]), <<1, 10000>>))]))

\* the Q values of VIKOR
VIKOR_Q(m, w, dirs, v) ==
    LET numAlts == Len(m)
        numCrit == NumCrit(m)
        fStar == Arr([j \in 1..numCrit |->
                     IF Dir(dirs, j) = "max" THEN MathMax(ColumnOr0(m, j))
                     ELSE MathMin(ColumnOr0(m, j))])
        fMinus == Arr([j \in 1..numCrit |->
                     IF Dir(dirs, j) = "max" THEN MathMin(ColumnOr0(m, j))
                     ELSE MathMax(ColumnOr0(m, j))])
        normalized(i, j) ==
            Div(Mul(WeightOr0(w, j), AbsNum(Sub(fStar[j], ToNum(Cell(m, i, j))))),
                OrElse(Sub(fStar[j], fMinus[j]), One))
        S == Arr([i \in 1..numAlts |-> Sum(Arr([j \in 1..numCrit |-> normalized(i, j)]))])
        R == Arr([i \in 1..numAlts |-> FoldMax(Arr([j \in 1..numCrit |-> normalized(i, j)]), 1, Zero)])
        sStar == MathMin(S)
        sMinus == MathMax(S)
        rStar == MathMin(R)
        rMinus == MathMax(R)
    IN  [S |-> S, R |-> R,
         Q |-> Arr([i \in 1..numAlts |->
                  Add(Mul(v, Div(Sub(S[i], sStar), OrElse(Sub(sMinus, sStar), One))),
                      Mul(Sub(One, v),
                          Div(Sub(R[i], rStar), OrElse(Sub(rMinus, rStar), One))))])]

\* mutant: VIKOR sorts the keys Q, putting the highest Q first
VIKOR_sortsQ(h, refs, w, dirs, v) ==
    LET Q == VIKOR_Q(Deref(h, refs), w, dirs, v).Q
    IN  [heap |-> h, error |-> FALSE, keys |-> Q,
         scores |-> Arr([i \in 1..Len(Q) |-> Sub(One, Q[i])])]

\* VIKOR sorts the keys -Q and returns the scores 1 - Q
VIKOR(h, refs, w, dirs, v) ==
    LET Q == VIKOR_Q(Deref(h, refs), w, dirs, v).Q
    IN  [heap |-> h, error |-> FALSE,
         keys |-> Arr([i \in 1..Len(Q) |-> Neg(Q[i])]),
         scores |-> Arr([i \in 1..Len(Q) |-> Sub(One, Q[i])])]

MOORA(h, refs, w, dirs) ==
    LET numCrit == NumCrit(Deref(h, refs))
        n == Normalization_vector(h, refs, dirs)
        normalized == Deref(n.heap, n.refs)
        term(row, j) == IF Dir(dirs, j) = "max"
                        THEN Mul(ToNum(Get(row, j)), WeightOr0(w, j))
                        ELSE Neg(Mul(ToNum(Get(row, j)), WeightOr0(w, j)))
    IN  Returned(n.heap, Arr([i \in 1..Len(normalized) |->
            Sum(Arr([j \in 1..numCrit |-> term(normalized[i], j)]))]))

WASPAS(h, refs, w, dirs, lambda) ==
    LET wsmResult == SAW(h, refs, w, dirs)
        wpmResult == WPM(wsmResult.heap, refs, w, dirs)
    IN  Returned(wpmResult.heap, Arr([i \in 1..Len(wsmResult.scores) |->
            Add(Mul(lambda, wsmResult.scores[i]),
                Mul(Sub(One, lambda), ToNum(Get(wpmResult.scores, i))))]))

COPRAS(h, refs, w, dirs) ==
    LET numAlts == Len(refs)
        numCrit == NumCrit(Deref(h, refs))
        n == Normalization_sum(h, refs, dirs)
        normalized == Deref(n.heap, n.refs)
        weighted(i, j) == Mul(ToNum(Cell(normalized, i, j)), WeightOr0(w, j))
        sPlus == Arr([i \in 1..numAlts |-> Sum(Arr([j \in 1..numCrit |->
                     IF Dir(dirs, j) = "max" THEN weighted(i, j) ELSE Zero]))])
        sMinus == Arr([i \in 1..numAlts |-> Sum(Arr([j \in 1..numCrit |->
                     IF Dir(dirs, j) = "max" THEN Zero ELSE weighted(i, j)]))])
        sMinusSum == Sum(sMinus)
        invSum == Sum(Arr([i \in 1..numAlts |-> Div(One, sMinus[i])]))
        Q == Arr([i \in 1..numAlts |->
                 Add(sPlus[i], Div(sMinusSum, OrElse(Mul(sMinus[i], invSum), One)))])
        qMax == MathMax(Q)
    IN  Returned(n.heap, Arr([i \in 1..numAlts |-> Mul(Div(Q[i], qMax), Num(100))]))

EDAS(h, refs, w, dirs) ==
    LET m == Deref(h, refs)
        numAlts == Len(m)
        numCrit == NumCrit(m)
        avg == Arr([j \in 1..numCrit |->
                   Div(Sum(Arr([i \in 1..numAlts |-> ToNum(Cell(m, i, j))])), Num(numAlts))])
        diff(i, j) == Sub(ToNum(Cell(m, i, j)), avg[j])
        up(i, j) == Div(Max2(Zero, diff(i, j)), OrElse(avg[j], One))
        down(i, j) == Div(Max2(Zero, Neg(diff(i, j))), OrElse(avg[j], One))
        held(i, j, x) == IF j <= numCrit /\ i <= numAlts THEN x ELSE Zero
        PDA == Arr([i \in 1..numAlts |-> Arr([j \in 1..Len(m[i]) |->
                   held(i, j, IF Dir(dirs, j) = "max" THEN up(i, j) ELSE down(i, j))])])
        NDA == Arr([i \in 1..numAlts |-> Arr([j \in 1..Len(m[i]) |->
                   held(i, j, IF Dir(dirs, j) = "max" THEN down(i, j) ELSE up(i, j))])])
        SP == Arr([i \in 1..numAlts |-> WeightedSum(PDA[i], w)])
        SN == Arr([i \in 1..numAlts |-> WeightedSum(NDA[i], w)])
        maxSP == OrElse(MathMax(SP), One)
        maxSN == OrElse(MathMax(SN), One)
    IN  Returned(h, Arr([i \in 1..numAlts |->
            Div(Add(Div(SP[i], maxSP), Sub(One, Div(SN[i], maxSN))), Num(2))]))

CODAS(h, refs, w, dirs, tau) ==
    LET numAlts == Len(refs)
        numCrit == NumCrit(Deref(h, refs))
        n == Normalization_linearMax(h, refs, dirs)
        normalized == Deref(n.heap, n.refs)
        weighted == Arr([i \in 1..numAlts |-> Arr([j \in 1..Len(normalized[i]) |->
                        Mul(normalized[i][j], WeightOr0(w, j))])])
        nis == Arr([j \in 1..Len(weighted[1]) |-> MathMin(Column(weighted, j))])
        diff(i, j) == Sub(ToNum(Cell(weighted, i, j)), ToNum(Get(nis, j)))
        E == Arr([i \in 1..numAlts |-> Sqrt(Sum(Arr([j \in 1..numCrit |->
                 Mul(diff(i, j), diff(i, j))])))])
        T == Arr([i \in 1..numAlts |-> Sum(Arr([j \in 1..numCrit |-> AbsNum(diff(i, j))]))])
        H(i, k) == LET eDiff == Sub(E[i], E[k])
                       psi == IF Le(tau, AbsNum(eDiff)) THEN One ELSE Zero
                   IN  Add(eDiff, Mul(psi, Sub(T[i], T[k])))
    IN  IF numAlts = 0 THEN Thrown(n.heap)
        ELSE Returned(n.heap, Arr([i \in 1..numAlts |-> Sum(Arr([k \in 1..numAlts |-> H(i, k)]))]))

\* [optimal, ...matrix]: a new row for the optimal alternative, the input's rows shared
ARAS(h, refs, w, dirs) ==
    LET m == Deref(h, refs)
        numCrit == NumCrit(m)
        optimal == Arr([j \in 1..numCrit |->
                       IF Dir(dirs, j) = "max" THEN MathMax(Column(m, j))
                       ELSE MathMin(Column(m, j))])
        extHeap == Append(h, optimal)
        extMatrix == <<Len(h) + 1>> \o refs
        n == Normalization_sum(extHeap, extMatrix, dirs)
        normalized == Deref(n.heap, n.refs)
        S == Arr([i \in 1..Len(normalized) |-> Sum(Arr([j \in 1..Len(normalized[i]) |->
                 Mul(normalized[i][j], WeightOr0(w, j))]))])
        S0 == S[1]
    IN  Returned(n.heap, Arr([i \in 1..Len(refs) |-> Div(S[i + 1], OrElse(S0, One))]))

(***************************************************************************)
(* SAW and MOORA on doubles (a rectangular matrix of doubles and zeros)    *)
(***************************************************************************)
RECURSIVE FoldMax64(_, _, _)
FoldMax64(s, i, acc) ==
    IF i > Len(s) THEN acc
    ELSE FoldMax64(s, i + 1, IF acc = NegInf \/ Lt64(acc, s[i]) THEN s[i] ELSE acc)
RECURSIVE FoldMin64(_, _, _)
FoldMin64(s, i, acc) ==
    IF i > Len(s) THEN acc
    ELSE FoldMin64(s, i + 1, IF acc = PosInf \/ Lt64(s[i], acc) THEN s[i] ELSE acc)
RECURSIVE FoldSum64(_, _, _)
FoldSum64(s, i, acc) == IF i > Len(s) THEN acc ELSE FoldSum64(s, i + 1, Add64(acc, s[i]))

\* Normalization.linearMax: maxVal and minVal of each column, then the cells
linearMaxCells64(m, dirs) ==
    CHOOSE cells \in
        {Arr([i \in 1..Len(m) |-> Arr([j \in 1..NumCrit(m) |->
            IF Dir(dirs, j) = "max" THEN Div64(m[i][j], maxVal[j])
            ELSE IF m[i][j] # Zero THEN Div64(minVal[j], m[i][j])
            ELSE Zero])]) :
         maxVal \in {Arr([j \in 1..NumCrit(m) |->
                        OrElse(FoldMax64(ColumnOr0(m, j), 1, NegInf), One64)])},
         minVal \in {Arr([j \in 1..NumCrit(m) |->
                        OrElse(FoldMin64(SelectSeq(ColumnOr0(m, j), LAMBDA v : Lt64(Zero, v)),
                                         1, PosInf), F64(<<1, 1000>>))])}} : TRUE

\* Normalization.vector: the root of the sum of squares of each column, then the cells
vectorCells64(m) ==
    CHOOSE cells \in
        {Arr([i \in 1..Len(m) |-> Arr([j \in 1..NumCrit(m) |->
            Div64(m[i][j], sumSquares[j])])]) :
         sumSquares \in {Arr([j \in 1..NumCrit(m) |->
             OrElse(Sqrt64(FoldSum64(Arr([i \in 1..Len(m) |-> Mul64(m[i][j], m[i][j])]),
                                     1, Zero)), One64)])}} : TRUE

\* mutant: the weights are divided by their sum before they are applied
SAW64_normalizedWeights(h, refs, w, dirs) ==
    CHOOSE out \in
        {Returned(n.heap, Arr([i \in 1..Len(n.refs) |->
             FoldSum64(Arr([j \in 1..Len(n.heap[n.refs[i]]) |->
                           Mul64(n.heap[n.refs[i]][j], Div64(WeightOr0(w, j), total))]),
                       1, Zero)])) :
         n \in {StoreRows(CopyRows(h, refs), linearMaxCells64(Deref(h, refs), dirs))},
         total \in {FoldSum64(w, 1, Zero)}} : TRUE

\* SAW: the heap it leaves and the scores
SAW64(h, refs, w, dirs) ==
    CHOOSE out \in
        {Returned(n.heap, Arr([i \in 1..Len(n.refs) |->
             FoldSum64(Arr([j \in 1..Len(n.heap[n.refs[i]]) |->
                           Mul64(n.heap[n.refs[i]][j], WeightOr0(w, j))]), 1, Zero)])) :
         n \in {StoreRows(CopyRows(h, refs), linearMaxCells64(Deref(h, refs), dirs))}} : TRUE

\* MOORA: the heap it leaves and the scores
MOORA64(h, refs, w, dirs) ==
    CHOOSE out \in
        {Returned(n.heap, Arr([i \in 1..Len(n.refs) |->
             FoldSum64(Arr([j \in 1..NumCrit(Deref(h, refs)) |->
                           IF Dir(dirs, j) = "max"
                           THEN Mul64(n.heap[n.refs[i]][j], WeightOr0(w, j))
                           ELSE Neg64(Mul64(n.heap[n.refs[i]][j], WeightOr0(w, j)))]),
                       1, Zero)])) :
         n \in {StoreRows(CopyRows(h, refs), vectorCells64(Deref(h, refs)))}} : TRUE

(***************************************************************************)
(* VIKOR on doubles                                                        *)
(***************************************************************************)
Sub64(a, b) == Add64(a, Neg64(b))
Abs64(a) == IF a[1] < 0 THEN Neg64(a) ELSE a

\* (weights[j] || 0) * Math.abs(fStar[j] - matrix[i][j]) / (fStar[j] - fMinus[j] || 1)
VIKOR64_normalized(m, w, dirs) ==
    CHOOSE cells \in
        {Arr([i \in 1..Len(m) |-> Arr([j \in 1..NumCrit(m) |->
            Div64(Mul64(WeightOr0(w, j), Abs64(Sub64(fStar[j], m[i][j]))),
                  OrElse(Sub64(fStar[j], fMinus[j]), One64))])]) :
         fStar \in {Arr([j \in 1..NumCrit(m) |->
                       IF Dir(dirs, j) = "max" THEN FoldMax64(ColumnOr0(m, j), 1, NegInf)
                       ELSE FoldMin64(ColumnOr0(m, j), 1, PosInf)])},
         fMinus \in {Arr([j \in 1..NumCrit(m) |->
                       IF Dir(dirs, j) = "max" THEN FoldMin64(ColumnOr0(m, j), 1, PosInf)
                       ELSE FoldMax64(ColumnOr0(m, j), 1, NegInf)])}} : TRUE

\* sNorm, rNorm and Q of every alternative, from S and R
VIKOR64_QOf(S, R, v) ==
    CHOOSE out \in
        {[S |-> S, R |-> R, sNorm |-> sNorm, rNorm |-> rNorm,
          Q |-> Arr([i \in 1..Len(S) |->
                    Add64(Mul64(v, sNorm[i]), Mul64(Sub64(One64, v), rNorm[i]))])] :
         sNorm \in {Arr([i \in 1..Len(S) |->
             Div64(Sub64(S[i], FoldMin64(S, 1, PosInf)),
                   OrElse(Sub64(FoldMax64(S, 1, NegInf), FoldMin64(S, 1, PosInf)), One64))])},
         rNorm \in {Arr([i \in 1..Len(R) |->
             Div64(Sub64(R[i], FoldMin64(R, 1, PosInf)),
                   OrElse(Sub64(FoldMax64(R, 1, NegInf), FoldMin64(R, 1, PosInf)), One64))])}} : TRUE

\* S (sumS), R (maxR, from 0) and the Q values of VIKOR
VIKOR64_Q(m, w, dirs, v) ==
    CHOOSE out \in
        {CHOOSE q \in {VIKOR64_QOf(S, R, v) :
                        S \in {Arr([i \in 1..Len(m) |-> FoldSum64(n[i], 1, Zero)])},
                        R \in {Arr([i \in 1..Len(m) |-> FoldMax64(n[i], 1, Zero)])}} : TRUE :
         n \in {VIKOR64_normalized(m, w, dirs)}} : TRUE

\* mutant: Q is always the consensus of S and R
VIKOR64_consensusOnly(h, refs, w, dirs, v) ==
    CHOOSE out \in
        {[heap |-> h, error |-> FALSE,
          keys |-> Arr([i \in 1..Len(Q) |-> Neg64(Q[i])]),
          scores |-> Arr([i \in 1..Len(Q) |-> Sub64(One64, Q[i])])] :
         Q \in {VIKOR64_Q(Deref(h, refs), w, dirs, F64(<<1, 2>>)).Q}} : TRUE

\* VIKOR sorts the keys -Q and returns the scores 1 - Q
VIKOR64(h, refs, w, dirs, v) ==
    CHOOSE out \in
        {[heap |-> h, error |-> FALSE,
          keys |-> Arr([i \in 1..Len(Q) |-> Neg64(Q[i])]),
          scores |-> Arr([i \in 1..Len(Q) |-> Sub64(One64, Q[i])])] :
         Q \in {VIKOR64_Q(Deref(h, refs), w, dirs, v).Q}} : TRUE

(***************************************************************************)
(* TOPSIS on doubles                                                       *)
(***************************************************************************)
\* Math.pow(x, 2)
Sq64(a) == CHOOSE r \in {Mul64(x, x) : x \in {a}} : TRUE

\* normalized.map(row => row.map((val, j) => val * (weights[j] || 0)))
TOPSIS64_weighted(normalized, w) ==
    Arr([i \in 1..Len(normalized) |-> Arr([j \in 1..Len(normalized[i]) |->
        Mul64(normalized[i][j], WeightOr0(w, j))])])

\* pis (best TRUE) or nis (best FALSE) of the weighted matrix
TOPSIS64_ideal(weighted, dirs, best) ==
    Arr([j \in 1..NumCrit(weighted) |->
        IF (Dir(dirs, j) = "max") = best THEN FoldMax64(Column(weighted, j), 1, NegInf)
        ELSE FoldMin64(Column(weighted, j), 1, PosInf)])

\* the distance of every alternative to an ideal solution
TOPSIS64_distance(weighted, ideal) ==
    CHOOSE d \in
        {Arr([i \in 1..Len(wt) |->
            Sqrt64(FoldSum64(Arr([j \in 1..Len(id) |-> Sq64(Sub64(wt[i][j], id[j]))]),
                             1, Zero))]) :
         wt \in {weighted}, id \in {ideal}} : TRUE

\* dMinus[i] / (dp + dMinus[i] + 0.0001)
TOPSIS64_closeness(weighted, dirs) ==
    CHOOSE scores \in
        {Arr([i \in 1..Len(dPlus) |->
            Div64(dMinus[i], Add64(Add64(dPlus[i], dMinus[i]), F64(<<1, 10000>>)))]) :
         dPlus \in {TOPSIS64_distance(weighted, TOPSIS64_ideal(weighted, dirs, TRUE))},
         dMinus \in {TOPSIS64_distance(weighted, TOPSIS64_ideal(weighted, dirs, FALSE))}} : TRUE

\* the weighted normalized matrix, from the normalized rows on the heap
TOPSIS64_ranked(n, w, dirs) ==
    CHOOSE out \in
        {Returned(n.heap, TOPSIS64_closeness(wt, dirs)) :
         wt \in {TOPSIS64_weighted(Deref(n.heap, n.refs), w)}} : TRUE

\* mutant: the distances to the two ideal solutions change places
TOPSIS64_idealsSwapped(h, refs, w, dirs) ==
    CHOOSE out \in
        {TOPSIS64_ranked(n, w, Arr([j \in 1..Len(dirs) |->
                                       IF dirs[j] = "max" THEN "min" ELSE "max"])) :
         n \in {StoreRows(CopyRows(h, refs), vectorCells64(Deref(h, refs)))}} : TRUE

\* TOPSIS: the heap it leaves and the scores
TOPSIS64(h, refs, w, dirs) ==
    CHOOSE out \in
        {TOPSIS64_ranked(n, w, dirs) :
         n \in {StoreRows(CopyRows(h, refs), vectorCells64(Deref(h, refs)))}} : TRUE

(***************************************************************************)
(* Fuzzification and defuzzification on doubles; a triangular fuzzy number *)
(* is <<l, m, u>>                                                          *)
(***************************************************************************)
\* Math.max(0, x)
MaxWith0(x) == IF Lt64(Zero, x) THEN x ELSE Zero

\* mutant: the lower bound is clamped from above, Math.min(0, crisp - delta)
triangularSpread_clampAbove(crisp, spread) ==
    CHOOSE tfn \in
        {<<IF Lt64(Sub64(crisp, delta), Zero) THEN Sub64(crisp, delta) ELSE Zero,
           crisp, Add64(crisp, delta)>> :
         delta \in {Mul64(crisp, spread)}} : TRUE

\* Fuzzification.triangularSpread(crisp, spread)
triangularSpread(crisp, spread) ==
    CHOOSE tfn \in
        {<<MaxWith0(Sub64(crisp, delta)), crisp, Add64(crisp, delta)>> :
         delta \in {Mul64(crisp, spread)}} : TRUE

\* Defuzzification.centroid(tfn)
centroid(tfn) == Div64(Add64(Add64(tfn[1], tfn[2]), tfn[3]), F64(Num(3)))

(***************************************************************************)
(* Aggregation of expert matrices of triangular fuzzy numbers, on doubles  *)
(***************************************************************************)
RECURSIVE FoldProd64(_, _, _)
FoldProd64(s, i, acc) == IF i > Len(s) THEN acc ELSE FoldProd64(s, i + 1, Mul64(acc, s[i]))

\* mutant: the product is returned without its root
PowRoot_noRoot(p, n) == p

\* Math.pow(p, 1 / n) for the n the model reaches: pow(p, 1) is p and
\* pow(p, 0.5) is the square root of p
PowRoot(p, n) == IF n = 1 THEN p ELSE Sqrt64(p)

\* FuzzyAggregation.arithmeticMean(numbers)
arithmeticMean(numbers) ==
    IF Len(numbers) = 0 THEN <<Zero, Zero, Zero>>
    ELSE Arr([c \in 1..3 |->
             Div64(FoldSum64(Arr([k \in 1..Len(numbers) |-> numbers[k][c]]), 1, Zero),
                   F64(Num(Len(numbers))))])

\* FuzzyAggregation.geometricMean(numbers)
geometricMean(numbers) ==
    IF Len(numbers) = 0 THEN <<Zero, Zero, Zero>>
    ELSE Arr([c \in 1..3 |->
             PowRoot(FoldProd64(Arr([k \in 1..Len(numbers) |->
                                       OrElse(numbers[k][c], F64(<<1, 1000>>))]), 1, One64),
                     Len(numbers))])

\* matrix[i][j] of some expert raises a TypeError (matrix[i] is undefined), or
\* is undefined and the mean raises one reading its l
AggregationThrows(experts, numAlts, numCrit) ==
    \E k \in 1..Len(experts), i \in 1..numAlts, j \in 1..numCrit :
        i > Len(experts[k]) \/ j > Len(experts[k][i])

\* mutant: the first expert's cell stands for every expert's
aggregateCells_firstOnly(experts, method) ==
    Arr([i \in 1..Len(experts[1]) |-> Arr([j \in 1..NumCrit(experts[1]) |->
        IF method = "geometric"
        THEN geometricMean(Arr([k \in 1..Len(experts) |-> experts[1][i][j]]))
        ELSE arithmeticMean(Arr([k \in 1..Len(experts) |-> experts[1][i][j]]))])])

\* the aggregated cells, numAlts by numCrit as the first expert has them
aggregateCells(experts, method) ==
    Arr([i \in 1..Len(experts[1]) |-> Arr([j \in 1..NumCrit(experts[1]) |->
        IF method = "geometric"
        THEN geometricMean(Arr([k \in 1..Len(experts) |-> experts[k][i][j]]))
        ELSE arithmeticMean(Arr([k \in 1..Len(experts) |-> experts[k][i][j]]))])])

\* aggregateExpertEvaluations(expertMatrices, method): the heap with the rows
\* of the aggregate, and the references to them
aggregateExpertEvaluations(h, expertRefs, method) ==
    CHOOSE out \in
        {IF Len(experts) = 0 THEN [heap |-> h, refs |-> <<>>, error |-> FALSE]
         ELSE IF AggregationThrows(experts, Len(experts[1]), NumCrit(experts[1]))
         THEN [heap |-> h, refs |-> <<>>, error |-> TRUE]
         ELSE [heap |-> h \o aggregateCells(experts, method),
               refs |-> Arr([i \in 1..Len(experts[1]) |-> Len(h) + i]),
               error |-> FALSE] :
         experts \in {Arr([k \in 1..Len(expertRefs) |-> Deref(h, expertRefs[k])])}} : TRUE

(***************************************************************************)
(* Linguistic terms.  A string is the sequence of its characters; a Map    *)
(* from strings is a function on the set of its keys.                      *)
(***************************************************************************)
LowerCase == <<"a", "b", "c", "d", "e", "f", "g", "h", "i", "j", "k", "l", "m",
               "n", "o", "p", "q", "r", "s", "t", "u", "v", "w", "x", "y", "z">>
UpperCase == <<"A", "B", "C", "D", "E", "F", "G", "H", "I", "J", "K", "L", "M",
               "N", "O", "P", "Q", "R", "S", "T", "U", "V", "W", "X", "Y", "Z">>
WhiteSpace == {" ", "\t", "\n"}

LowerChar(c) ==
    IF \E i \in 1..Len(UpperCase) : UpperCase[i] = c
    THEN LowerCase[CHOOSE i \in 1..Len(UpperCase) : UpperCase[i] = c] ELSE c

\* s.toLowerCase()
toLowerCase(s) == Arr([i \in 1..Len(s) |-> LowerChar(s[i])])

RECURSIVE TrimStart(_)
TrimStart(s) == IF Len(s) > 0 /\ s[1] \in WhiteSpace THEN TrimStart(Tail(s)) ELSE s
RECURSIVE TrimEnd(_)
TrimEnd(s) == IF Len(s) > 0 /\ s[Len(s)] \in WhiteSpace THEN TrimEnd(SubSeq(s, 1, Len(s) - 1)) ELSE s

\* mutant: the string is used as it is
trim_none(s) == s

\* s.trim()
trim(s) == TrimEnd(TrimStart(s))

EmptyMap == [k \in {} |-> <<>>]
MapHas(map, k) == k \in DOMAIN map
MapSet(map, k, v) == [x \in DOMAIN map \cup {k} |-> IF x = k THEN v ELSE map[x]]

\* lookup.set(item.term.toLowerCase(), fuzzy), and the same for the
\* abbreviation where the item has one (none and '' are both written <<>>)
LookupWithItem(lookup, item) ==
    IF Len(item.abbreviation) > 0
    THEN MapSet(MapSet(lookup, toLowerCase(item.term), item.fuzzyNumber),
                toLowerCase(item.abbreviation), item.fuzzyNumber)
    ELSE MapSet(lookup, toLowerCase(item.term), item.fuzzyNumber)

RECURSIVE LookupOfScale(_, _, _)
LookupOfScale(scale, i, lookup) ==
    IF i > Len(scale) THEN lookup
    ELSE LookupOfScale(scale, i + 1, LookupWithItem(lookup, scale[i]))

\* commonAbbrevs, as pairs of the abbreviation and the full term
commonAbbrevs ==
    << <<<<"v", "h">>, <<"v", "e", "r", "y", " ", "h", "i", "g", "h">>>>,
       <<<<"v", "g">>, <<"v", "e", "r", "y", " ", "g", "o", "o", "d">>>>,
       <<<<"a", "h">>, <<"a", "b", "s", "o", "l", "u", "t", "e", "l", "y", " ", "h", "i", "g", "h">>>>,
       <<<<"h">>, <<"h", "i", "g", "h">>>>,
       <<<<"g">>, <<"g", "o", "o", "d">>>>,
       <<<<"m">>, <<"m", "e", "d", "i", "u", "m">>>>,
       <<<<"f">>, <<"f", "a", "i", "r">>>>,
       <<<<"m", "p">>, <<"m", "o", "r", "e", " ", "o", "r", " ", "l", "e", "s", "s", " ", "g", "o", "o", "d">>>>,
       <<<<"l">>, <<"l", "o", "w">>>>,
       <<<<"p">>, <<"p", "o", "o", "r">>>>,
       <<<<"v", "l">>, <<"v", "e", "r", "y", " ", "l", "o", "w">>>>,
       <<<<"v", "p">>, <<"v", "e", "r", "y", " ", "p", "o", "o", "r">>>>,
       <<<<"a", "l">>, <<"a", "b", "s", "o", "l", "u", "t", "e", "l", "y", " ", "l", "o", "w">>>> >>

RECURSIVE LookupWithAbbrevs(_, _)
LookupWithAbbrevs(i, lookup) ==
    IF i > Len(commonAbbrevs) THEN lookup
    ELSE LookupWithAbbrevs(i + 1,
             IF ~MapHas(lookup, commonAbbrevs[i][1]) /\ MapHas(lookup, commonAbbrevs[i][2])
             THEN MapSet(lookup, commonAbbrevs[i][1], lookup[commonAbbrevs[i][2]])
             ELSE lookup)

\* createLinguisticLookup(scale)
createLinguisticLookup(scale) == LookupWithAbbrevs(1, LookupOfScale(scale, 1, EmptyMap))

Half64 == F64(<<1, 2>>)
NumberCell(v) == [kind |-> "number", chars |-> <<>>, value |-> v]
StringCell(s) == [kind |-> "string", chars |-> s, value |-> Zero]

\* the conversion of one cell by linguisticToFuzzyMatrix
linguisticToFuzzyCell(cell, lookup) ==
    IF cell.kind = "number" THEN <<cell.value, cell.value, cell.value>>
    ELSE CHOOSE tfn \in
             {IF MapHas(lookup, key) THEN lookup[key] ELSE <<Half64, Half64, Half64>> :
              key \in {trim(toLowerCase(cell.chars))}} : TRUE

\* linguisticToFuzzyMatrix(linguisticMatrix, lookup)
linguisticToFuzzyMatrix(rows, lookup) ==
    Arr([i \in 1..Len(rows) |->
        Arr([j \in 1..Len(rows[i]) |-> linguisticToFuzzyCell(rows[i][j], lookup)])])

\* the conversion of one cell by processHybridMatrix; a cell that is already
\* a fuzzy number is a triple here and not a record
processHybridCell(cell, lookup, spread, outputFormat) ==
    IF outputFormat = "fuzzy"
    THEN IF cell.kind = "string"
         THEN CHOOSE tfn \in
                  {IF MapHas(lookup, key) THEN lookup[key] ELSE triangularSpread(Half64, spread) :
                   key \in {trim(toLowerCase(cell.chars))}} : TRUE
         ELSE triangularSpread(cell.value, spread)
    ELSE IF cell.kind = "number" THEN cell.value
         ELSE CHOOSE x \in
                  {IF MapHas(lookup, key) THEN centroid(lookup[key]) ELSE Half64 :
                   key \in {trim(toLowerCase(cell.chars))}} : TRUE

\* processHybridMatrix(matrix, config, outputFormat); a config without a
\* linguisticScale has the empty scale, which gives the same empty lookup
processHybridMatrix(rows, config, outputFormat) ==
    CHOOSE out \in
        {Arr([i \in 1..Len(rows) |->
             Arr([j \in 1..Len(rows[i]) |->
                 processHybridCell(rows[i][j], lookup, spread, outputFormat)])]) :
         lookup \in {createLinguisticLookup(config.linguisticScale)},
         spread \in {OrElse(config.defaultSpread, F64(<<1, 5>>))}} : TRUE

(***************************************************************************)
(* FuzzyArithmetic on triangular fuzzy numbers <<l, m, u>> of doubles      *)
(***************************************************************************)
\* mutant: the bounds are subtracted in place, l from l and u from u
subtract_inPlace(a, b) == <<Sub64(a[1], b[1]), Sub64(a[2], b[2]), Sub64(a[3], b[3])>>

\* FuzzyArithmetic.subtract(a, b)
subtract(a, b) == <<Sub64(a[1], b[3]), Sub64(a[2], b[2]), Sub64(a[3], b[1])>>

(***************************************************************************)
(* Ranking: indexed.sort((a, b) => b.s - a.s), then ranking[item.i] = rank *)
(***************************************************************************)
\* the comparator puts x before y: y - x < 0 (a NaN difference counts as 0)
\* (y - x < 0 is y < x: Infinity - Infinity is NaN and -Infinity < -Infinity is false)
SortsBefore(x, y) == Lt(ToNum(y), ToNum(x))
SortsEqual(x, y) == ~SortsBefore(x, y) /\ ~SortsBefore(y, x)

\* the comparator is a consistent ordering of the keys
\* (a NaN key compares equal to every key, so it may sit between two ordered keys)
ConsistentComparator(keys) ==
    \/ \A i \in 1..Len(keys) : ~IsNaN(keys[i])
    \/ \A i, j \in 1..Len(keys) : ~SortsBefore(keys[i], keys[j])

\* mutant: equal keys share a rank (1 + the number of keys sorted strictly before)
CompetitionRanking(keys) ==
    [i \in 1..Len(keys) |->
        1 + Cardinality({k \in 1..Len(keys) : SortsBefore(keys[k], keys[i])})]

\* mutant: among equal keys the later input comes first
ReverseTieRanking(keys) ==
    [i \in 1..Len(keys) |->
        1 + Cardinality({k \in 1..Len(keys) :
                \/ SortsBefore(keys[k], keys[i])
                \/ (k > i /\ ~SortsBefore(keys[i], keys[k]))})]

\* Array.prototype.sort is stable: equal keys keep their input order
StableRanking(keys) ==
    Arr([i \in 1..Len(keys) |->
        1 + Cardinality({k \in 1..Len(keys) :
                \/ SortsBefore(keys[k], keys[i])
                \/ (k < i /\ ~SortsBefore(keys[i], keys[k]))})])

\* with an inconsistent comparator the sort order is implementation-defined
Rankings(keys) ==
    IF ConsistentComparator(keys) THEN {StableRanking(keys)}
    ELSE Permutations(1..Len(keys))

(***************************************************************************)
(* SensitivityAnalysis: the scenarios of runAnalysis and their stability,  *)
(* on exact fractions                                                      *)
(***************************************************************************)
\* parseFloat(x.toFixed(6)): x to the nearest multiple of 1/1000000, a half
\* away from zero
\* (long division, digit by digit)
RECURSIVE DecimalDigits(_, _, _, _)
DecimalDigits(r, d, k, acc) ==
    IF k = 0 THEN (IF 2 * r >= d THEN acc + 1 ELSE acc)
    ELSE DecimalDigits((10 * r) % d, d, k - 1, 10 * acc + ((10 * r) \div d))
ToFixed6(x) ==
    IF ~IsFinite(x) THEN x
    ELSE Rat(Sign(x[1]) * DecimalDigits(Abs(x[1]) % x[2], x[2], 6, Abs(x[1]) \div x[2]), 1000000)

Tiny == <<1, 10000>>

\* analysis.alternatives[i] || `A${i + 1}`
DefaultNames == <<"A1", "A2", "A3", "A4">>
AlternativeName(alternatives, i) ==
    IF i <= Len(alternatives) /\ alternatives[i] # "" THEN alternatives[i] ELSE DefaultNames[i]

\* normalizedMatrix of calculateScores
calculateScores_normalized(m, dirs) ==
    Arr([i \in 1..Len(m) |-> Arr([j \in 1..Len(dirs) |->
        CHOOSE x \in
            {IF dirs[j] = "max" THEN Div(ToNum(Cell(m, i, j)), maxVal)
             ELSE IF ToNum(Cell(m, i, j)) # Zero THEN Div(minVal, ToNum(Cell(m, i, j))) ELSE Zero :
             maxVal \in {FoldMax(ColumnOr0(m, j), 1, Tiny)},
             minVal \in {FoldMin(SelectSeq(ColumnOr0(m, j), LAMBDA v : Lt(Zero, v)), 1, Tiny)}} :
            TRUE])])

\* the scores of the Distance-to-Ideal aggregation
calculateScores_distance(n, w) ==
    CHOOSE scores \in
        {Arr([i \in 1..Len(n) |->
            CHOOSE s \in
                {ToFixed6(Div(dMinus, Add(Add(dPlus, dMinus), Tiny))) :
                 dPlus \in {Sqrt(FoldSum(Arr([j \in 1..Len(w) |->
                              Pow(Sub(Mul(n[i][j], w[j]), idealPositive[j]), Num(2))]), 1, Zero))},
                 dMinus \in {Sqrt(FoldSum(Arr([j \in 1..Len(w) |->
                              Pow(Sub(Mul(n[i][j], w[j]), idealNegative[j]), Num(2))]), 1, Zero))}} :
                TRUE]) :
         idealPositive \in {Arr([j \in 1..Len(w) |->
             FoldMax(Arr([i \in 1..Len(n) |-> Mul(n[i][j], w[j])]), 1, NegInf)])},
         idealNegative \in {Arr([j \in 1..Len(w) |->
             FoldMin(Arr([i \in 1..Len(n) |-> Mul(n[i][j], w[j])]), 1, PosInf)])}} : TRUE

\* the scores of the weighted sum
calculateScores_weightedSum(n, w) ==
    Arr([i \in 1..Len(n) |->
        ToFixed6(FoldSum(Arr([j \in 1..Len(w) |-> Mul(n[i][j], w[j])]), 1, Zero))])

\* scores.sort((a, b) => b.score - a.score).map((s, idx) => ({ ...s, rank: idx + 1 }));
\* index is the row of the matrix an entry stands for: the source's entries
\* carry the name only, and nothing below reads index
SortedByScore(scores, alternatives) ==
    CHOOSE rankings \in
        {Arr([r \in 1..Len(scores) |->
            CHOOSE entry \in
                {[alternative |-> AlternativeName(alternatives, i), score |-> scores[i], rank |-> r,
                  index |-> i] :
                 i \in {k \in 1..Len(scores) : ranking[k] = r}} : TRUE]) :
         ranking \in {StableRanking(scores)}} : TRUE

\* calculateScores(matrix, criteria): the alternatives in the order of their
\* ranks; w and dirs are the weights and directions of the criteria
calculateScores(m, w, dirs, aggregation, alternatives) ==
    IF Len(m) = 0 \/ Len(w) = 0 THEN <<>>
    ELSE CHOOSE rankings \in
        {SortedByScore(IF aggregation = "Distance-to-Ideal" THEN calculateScores_distance(n, w)
                       ELSE calculateScores_weightedSum(n, w), alternatives) :
         n \in {calculateScores_normalized(m, dirs)}} : TRUE

\* baseWeights.reduce((sum, w, i) => i !== idx ? sum + w : sum, 0)
OthersSum(base, idx) ==
    FoldSum(Arr([i \in 1..Len(base) |-> IF i # idx THEN base[i] ELSE Zero]), 1, Zero)

\* mutant: the others fall by equal parts of delta
Redistributed_evenly(base, idx, delta) ==
    Arr([i \in 1..Len(base) |->
        IF i = idx THEN Add(base[i], delta)
        ELSE Sub(base[i], Div(delta, Num(Len(base) - 1)))])

\* newWeights after the weight of idx rose by delta and the others fell in
\* proportion to their base weights
Redistributed(base, idx, delta) ==
    CHOOSE newWeights \in
        {Arr([i \in 1..Len(base) |->
            IF i = idx THEN Add(base[i], delta)
            ELSE IF Lt(Zero, othersSum) THEN Sub(base[i], Mul(Div(base[i], othersSum), delta))
            ELSE base[i]]) :
         othersSum \in {OthersSum(base, idx)}} : TRUE

\* newWeights.map(w => w / sum)
Normalized(ws) ==
    CHOOSE normalizedWeights \in
        {Arr([i \in 1..Len(ws) |-> Div(ws[i], sum)]) : sum \in {FoldSum(ws, 1, Zero)}} : TRUE

\* the weights of the OAT scenario of criterion idx
OatWeights(base, idx) == Normalized(Redistributed(base, idx, Mul(base[idx], <<1, 2>>)))

\* the weights of the percentage scenario of criterion idx and change
PercentageWeights(base, idx, change) ==
    CHOOSE normalizedWeights \in
        {Normalized(Arr([i \in 1..Len(base) |-> Max2(Zero, newWeights[i])])) :
         newWeights \in {Redistributed(base, idx, Mul(base[idx], Div(Num(change), Num(100))))}} : TRUE

\* baseCriteria.map((_, i) => i === idx ? 0.5 : 0.5 / (baseCriteria.length - 1))
ExtremeWeights(base, idx) ==
    Arr([i \in 1..Len(base) |->
        IF i = idx THEN <<1, 2>> ELSE Div(<<1, 2>>, Num(Len(base) - 1))])

\* one entry of results; a scenario without changedCriterion has <<>> there
Scenario(kind, ws, rankings, changed, percent) ==
    [scenario |-> kind, weights |-> ws, rankings |-> rankings,
     changedCriterion |-> changed, changePercent |-> percent]

\* one entry of results with the rankings of its weights
ScenarioOf(m, dirs, analysis, kind, ws, changed, percent) ==
    Scenario(kind, ws, calculateScores(m, ws, dirs, analysis.aggregation, analysis.alternatives),
             changed, percent)

\* runAnalysis: the results handed to setScenarios; percentage scenarios come
\* in pairs, -percentageChange and then +percentageChange for each criterion
runAnalysis(m, base, dirs, analysis) ==
    <<ScenarioOf(m, dirs, analysis, "Base Case (Original)", base, <<>>, 0)>> \o
    (IF analysis.analysisType = "oat"
     THEN Arr([idx \in 1..Len(base) |->
              ScenarioOf(m, dirs, analysis, "Increase", OatWeights(base, idx),
                         <<analysis.names[idx]>>, 50)])
     ELSE IF analysis.analysisType = "percentage"
     THEN Arr([k \in 1..(2 * Len(base)) |->
              CHOOSE scenario \in
                  {ScenarioOf(m, dirs, analysis, "Change",
                              PercentageWeights(base, (k + 1) \div 2, change),
                              <<analysis.names[(k + 1) \div 2]>>, change) :
                   change \in {IF k % 2 = 1 THEN 0 - analysis.percentageChange
                               ELSE analysis.percentageChange}} : TRUE])
     ELSE Arr([idx \in 1..Len(base) |->
              ScenarioOf(m, dirs, analysis, "Dominant", ExtremeWeights(base, idx),
                         <<analysis.names[idx]>>, 100)])
          \o <<ScenarioOf(m, dirs, analysis, "Equal Weights",
                          Arr([i \in 1..Len(base) |-> Div(One, Num(Len(base)))]), <<>>, 0)>>)

\* the entries of the rankings of all scenarios, in order
RECURSIVE AllRankings(_, _)
AllRankings(scenarios, i) ==
    IF i > Len(scenarios) THEN <<>> ELSE scenarios[i].rankings \o AllRankings(scenarios, i + 1)

\* rankChanges[alt]
RanksOf(entries, alt) ==
    Arr([k \in 1..Len(SelectSeq(entries, LAMBDA r : r.alternative = alt)) |->
        SelectSeq(entries, LAMBDA r : r.alternative = alt)[k].rank])

\* scenario.rankings[0].alternative !== originalWinner && scenario.changedCriterion
ChangesWinner(scenario, originalWinner) ==
    /\ scenario.rankings[1].alternative # originalWinner
    /\ scenario.changedCriterion # <<>>
    /\ scenario.changedCriterion[1] # ""

RECURSIVE CriticalCriteria(_, _, _, _)
CriticalCriteria(scenarios, i, originalWinner, found) ==
    IF i > Len(scenarios) THEN found
    ELSE CriticalCriteria(scenarios, i + 1, originalWinner,
             IF /\ ChangesWinner(scenarios[i], originalWinner)
                /\ \A k \in 1..Len(found) : found[k] # scenarios[i].changedCriterion[1]
             THEN Append(found, scenarios[i].changedCriterion[1]) ELSE found)

MinOf(ranks) == CHOOSE r \in {ranks[k] : k \in 1..Len(ranks)} : \A k \in 1..Len(ranks) : r <= ranks[k]
MaxOf(ranks) == CHOOSE r \in {ranks[k] : k \in 1..Len(ranks)} : \A k \in 1..Len(ranks) : r >= ranks[k]

\* rankAnalysis: null for fewer than two scenarios; baseRanks[0].alternative
\* raises a TypeError when the base case ranks no alternative
rankAnalysis(scenarios) ==
    IF Len(scenarios) < 2 THEN [null |-> TRUE, error |-> FALSE]
    ELSE IF Len(scenarios[1].rankings) = 0 THEN [null |-> FALSE, error |-> TRUE]
    ELSE CHOOSE analysis \in
        {[null |-> FALSE, error |-> FALSE,
          criticalCriteria |-> CriticalCriteria(scenarios, 2, scenarios[1].rankings[1].alternative, <<>>),
          originalWinner |-> scenarios[1].rankings[1].alternative,
          stability |-> [alt \in {scenarios[1].rankings[k].alternative :
                                      k \in 1..Len(scenarios[1].rankings)} |->
              [min |-> MinOf(RanksOf(entries, alt)), max |-> MaxOf(RanksOf(entries, alt)),
               range |-> MaxOf(RanksOf(entries, alt)) - MinOf(RanksOf(entries, alt))]]] :
         entries \in {AllRankings(scenarios, 1)}} : TRUE

(***************************************************************************)
(* The rankings of MCDMCalculator and of the sensitivity view's base case, *)
(* on doubles                                                              *)
(***************************************************************************)
RECURSIVE BToInt(_)
BToInt(a) == IF a = <<>> THEN 0 ELSE a[1] + LimbBase * BToInt(Tail(a))

\* parseFloat(x.toFixed(6)) of a double: |x| * 1000000 to the nearest integer,
\* a half upwards, and the double nearest to that many millionths
ToFixed6_64(x) ==
    IF ~IsF64(x) THEN x
    ELSE CHOOSE r \in
        {F64(<<x[1] * BToInt(IF x[4] >= 0 THEN BShl(big, x[4])
                             ELSE BShr(BAdd(big, BShl(<<1>>, (0 - x[4]) - 1)), 0 - x[4])),
               1000000>>) :
         big \in {BMulSmall(BMulSmall(x[3], 1000), 1000)}} : TRUE

Tiny64 == F64(<<1, 10000>>)

\* normalizedMatrix of calculateScores: linear whatever the logic module says
calculateScores64_normalized(m, dirs) ==
    Arr([i \in 1..Len(m) |-> Arr([j \in 1..Len(dirs) |->
        CHOOSE x \in
            {IF dirs[j] = "max" THEN Div64(Cell(m, i, j), maxVal)
             ELSE IF Cell(m, i, j) # Zero THEN Div64(minVal, Cell(m, i, j)) ELSE Zero :
             maxVal \in {FoldMax64(ColumnOr0(m, j), 1, Tiny64)},
             minVal \in {FoldMin64(SelectSeq(ColumnOr0(m, j), LAMBDA v : Lt64(Zero, v)), 1, Tiny64)}} :
            TRUE])])

\* normalizedMatrix of MCDMCalculator's results
results_normalized(m, dirs, normalization) ==
    Arr([i \in 1..Len(m) |-> Arr([j \in 1..Len(dirs) |->
        CHOOSE x \in
            {IF normalization = "Vector" THEN Div64(value, sumSquares)
             ELSE IF normalization = "Sum" THEN Div64(value, colSum)
             ELSE IF normalization = "Max-Min"
             THEN (IF dirs[j] = "max"
                   THEN Div64(Sub64(value, minVal), OrElse(Sub64(maxVal, minVal), One64))
                   ELSE Div64(Sub64(maxVal, value), OrElse(Sub64(maxVal, minVal), One64)))
             ELSE IF dirs[j] = "max" THEN Div64(value, maxVal)
             ELSE IF value # Zero THEN Div64(minVal, value) ELSE Zero :
             value \in {OrElse(Cell(m, i, j), Zero)},
             maxVal \in {FoldMax64(ColumnOr0(m, j), 1, Tiny64)},
             minVal \in {FoldMin64(SelectSeq(ColumnOr0(m, j), LAMBDA v : Lt64(Zero, v)), 1, Tiny64)},
             sumSquares \in {OrElse(Sqrt64(FoldSum64(Arr([k \in 1..Len(m) |->
                                 Mul64(ColumnOr0(m, j)[k], ColumnOr0(m, j)[k])]), 1, Zero)), Tiny64)},
             colSum \in {OrElse(FoldSum64(ColumnOr0(m, j), 1, Zero), Tiny64)}} : TRUE])])

\* normalizedMatrix[i][j] * weight for every cell
WeightedCells64(n, w) ==
    Arr([i \in 1..Len(n) |-> Arr([j \in 1..Len(w) |-> Mul64(n[i][j], w[j])])])

\* the closeness of every row to the ideals given, to six decimals
Closeness64(weighted, idealPositive, idealNegative) ==
    Arr([i \in 1..Len(weighted) |->
        CHOOSE s \in
            {ToFixed6_64(Div64(dMinus, Add64(Add64(dPlus, dMinus), Tiny64))) :
             dPlus \in {Sqrt64(FoldSum64(Arr([j \in 1..Len(idealPositive) |->
                          Sq64(Sub64(weighted[i][j], idealPositive[j]))]), 1, Zero))},
             dMinus \in {Sqrt64(FoldSum64(Arr([j \in 1..Len(idealNegative) |->
                          Sq64(Sub64(weighted[i][j], idealNegative[j]))]), 1, Zero))}} : TRUE])

\* Math.max(...vals) or Math.min(...vals) of column j
ColumnBest64(weighted, j, largest) ==
    IF largest THEN FoldMax64(Column(weighted, j), 1, NegInf)
    ELSE FoldMin64(Column(weighted, j), 1, PosInf)

\* the scores of calculateScores under the aggregation given
calculateScores64_scores(weighted, numCrit, aggregation) ==
    IF aggregation = "Distance-to-Ideal"
    THEN Closeness64(weighted,
                     Arr([j \in 1..numCrit |-> ColumnBest64(weighted, j, TRUE)]),
                     Arr([j \in 1..numCrit |-> ColumnBest64(weighted, j, FALSE)]))
    ELSE Arr([i \in 1..Len(weighted) |-> ToFixed6_64(FoldSum64(weighted[i], 1, Zero))])

\* the scores of results: the ideals follow the direction of each criterion
results_scores(weighted, dirs, aggregation) ==
    IF aggregation = "Distance-to-Ideal"
    THEN Closeness64(weighted,
                     Arr([j \in 1..Len(dirs) |-> ColumnBest64(weighted, j, dirs[j] = "max")]),
                     Arr([j \in 1..Len(dirs) |-> ColumnBest64(weighted, j, dirs[j] # "max")]))
    ELSE Arr([i \in 1..Len(weighted) |-> ToFixed6_64(FoldSum64(weighted[i], 1, Zero))])

\* calculateScores(matrix, criteria) of the sensitivity view
calculateScores64(m, w, dirs, logic, alternatives) ==
    IF Len(m) = 0 \/ Len(w) = 0 THEN <<>>
    ELSE CHOOSE rankings \in
        {SortedByScore(calculateScores64_scores(weighted, Len(w), logic.aggregation), alternatives) :
         weighted \in {WeightedCells64(calculateScores64_normalized(m, dirs), w)}} : TRUE

\* results of MCDMCalculator; c.weight || 0 is the weight of a criterion
results(m, w, dirs, logic, alternatives) ==
    IF Len(m) = 0 \/ Len(w) = 0 THEN <<>>
    ELSE CHOOSE rankings \in
        {SortedByScore(results_scores(weighted, dirs, logic.aggregation), alternatives) :
         weighted \in {WeightedCells64(results_normalized(m, dirs, logic.normalization),
                                       Arr([j \in 1..Len(w) |-> OrElse(w[j], Zero)]))}} : TRUE

(***************************************************************************)
(* executeWithFallback: API keys are their indices 0..n-1 in API_KEYS, the *)
(* module-level currentKeyIndex is shared by every request                 *)
(***************************************************************************)
\* error.message?.includes('429') || error.message?.includes('quota')
isQuotaError(error) == error = "quota"

\* rotateApiKey(): the next index when more than one key is configured
rotateApiKey(currentKeyIndex, numKeys) ==
    IF numKeys > 1
    THEN [currentKeyIndex |-> (currentKeyIndex + 1) % numKeys, rotated |-> TRUE]
    ELSE [currentKeyIndex |-> currentKeyIndex, rotated |-> FALSE]

\* mutant: the request goes on whenever the key was rotated
ShouldRetry_anyKey(rotation, triedKeys) == rotation.rotated

\* rotateApiKey() && !triedKeys.has(currentKeyIndex)
ShouldRetry(rotation, triedKeys) ==
    rotation.rotated /\ rotation.currentKeyIndex \notin triedKeys

(***************************************************************************)
(* fuzzyTOPSIS on triangular fuzzy numbers <<l, m, u>>                      *)
(***************************************************************************)
L(t) == t[1]
M(t) == t[2]
U(t) == t[3]

\* typeof w === 'number' ? { l: w, m: w, u: w } : w
FuzzyWeight(w) == IF Len(w) = 3 THEN w ELSE <<w, w, w>>

FuzzyNormalization_linearBenefit(value, max) ==
    <<IF max # Zero THEN Div(L(value), max) ELSE Zero,
      IF max # Zero THEN Div(M(value), max) ELSE Zero,
      IF max # Zero THEN Div(U(value), max) ELSE Zero>>

FuzzyNormalization_linearCost(value, min) ==
    <<IF U(value) # Zero THEN Div(min, U(value)) ELSE Zero,
      IF M(value) # Zero THEN Div(min, M(value)) ELSE Zero,
      IF L(value) # Zero THEN Div(min, L(value)) ELSE Zero>>

FuzzyArithmetic_multiply(a, b) == <<Mul(L(a), L(b)), Mul(M(a), M(b)), Mul(U(a), U(b))>>

FuzzyArithmetic_distance(a, b) ==
    Div(Sqrt(Add(Add(Mul(Sub(L(a), L(b)), Sub(L(a), L(b))),
                     Mul(Sub(M(a), M(b)), Sub(M(a), M(b)))),
                 Mul(Sub(U(a), U(b)), Sub(U(a), U(b))))),
        Sqrt(Num(3)))

fuzzyTOPSIS(h, refs, w, dirs) ==
    LET m == Deref(h, refs)
        numAlts == Len(m)
        numCrit == NumCrit(m)
        part(j, k) == Arr([i \in 1..numAlts |-> m[i][j][k]])
        maxU == Arr([j \in 1..numCrit |-> MathMax(part(j, 3))])
        minL == Arr([j \in 1..numCrit |->
                    MathMin(SelectSeq(part(j, 1), LAMBDA v : Lt(Zero, v)))])
        normalizedMatrix == Arr([i \in 1..numAlts |-> Arr([j \in 1..numCrit |->
            IF Dir(dirs, j) = "max"
            THEN FuzzyNormalization_linearBenefit(m[i][j], maxU[j])
            ELSE FuzzyNormalization_linearCost(m[i][j], minL[j])])])
        weightedMatrix == Arr([i \in 1..numAlts |-> Arr([j \in 1..numCrit |->
            FuzzyArithmetic_multiply(normalizedMatrix[i][j], FuzzyWeight(w[j]))])])
        best(j, k) == MathMax(Arr([i \in 1..numAlts |-> weightedMatrix[i][j][k]]))
        worst(j, k) == MathMin(Arr([i \in 1..numAlts |-> weightedMatrix[i][j][k]]))
        FPIS == Arr([j \in 1..numCrit |->
                    IF Dir(dirs, j) = "max" THEN <<best(j, 1), best(j, 2), best(j, 3)>>
                    ELSE <<worst(j, 1), worst(j, 2), worst(j, 3)>>])
        FNIS == Arr([j \in 1..numCrit |->
                    IF Dir(dirs, j) = "max" THEN <<worst(j, 1), worst(j, 2), worst(j, 3)>>
                    ELSE <<best(j, 1), best(j, 2), best(j, 3)>>])
        dPlus == Arr([i \in 1..numAlts |-> Sum(Arr([j \in 1..numCrit |->
                     FuzzyArithmetic_distance(weightedMatrix[i][j], FPIS[j])]))])
        dMinus == Arr([i \in 1..numAlts |-> Sum(Arr([j \in 1..numCrit |->
                     FuzzyArithmetic_distance(weightedMatrix[i][j], FNIS[j])]))])
    IN  IF numAlts = 0 \/ numCrit = 0 THEN Returned(h, <<>>)
        \* fuzzyWeights[j] is undefined: multiply reads .l of undefined
        ELSE IF Len(w) < numCrit THEN Thrown(h)
        ELSE Returned(h, Arr([i \in 1..numAlts |->
                 Div(dMinus[i], Add(Add(dPlus[i], dMinus[i]), <<1, 10000>>))]))

(***************************************************************************)
(* calculateMCDM: a method name is a sequence of characters                *)
(***************************************************************************)

\* methodName.toUpperCase()
toUpperCase(str) ==
    Arr([k \in 1..Len(str) |->
        IF \E a \in 1..26 : LowerCase[a] = str[k]
        THEN UpperCase[CHOOSE a \in 1..26 : LowerCase[a] = str[k]]
        ELSE str[k]])

\* mutant: the separators stay in the name
KeepSeparators(str) == str

\* .replace(/[- ]/g, '')
StripSeparators(str) == SelectSeq(str, LAMBDA c : c # "-" /\ c # " ")

\* .replace('WSM', 'SAW'): the first occurrence only
ReplaceWSM(str) ==
    LET hits == {k \in 1..(Len(str) - 2) :
                    str[k] = "W" /\ str[k + 1] = "S" /\ str[k + 2] = "M"}
        at == CHOOSE k \in hits : \A x \in hits : k <= x
    IN  IF hits = {} THEN str
        ELSE Arr([k \in 1..Len(str) |->
                 IF k = at THEN "S" ELSE IF k = at + 1 THEN "A"
                 ELSE IF k = at + 2 THEN "W" ELSE str[k]])

normalizedMethod(methodName) == ReplaceWSM(StripSeparators(toUpperCase(methodName)))

\* a parameter default (v = 0.5): used when the argument is undefined
Default(x, c) == IF x = Undef THEN c ELSE x

\* mutant: an unknown method name is rejected
unknownMethod_throws(h, refs, w, dirs) == Thrown(h)

\* default: the method name matched no case
unknownMethod(h, refs, w, dirs) == TOPSIS(h, refs, w, dirs)

calculateMCDM(methodName, h, refs, w, dirs, opts) ==
    LET name == normalizedMethod(methodName)
    IN  IF name \in {<<"S", "A", "W">>, <<"W", "S", "M">>,
                     <<"W", "E", "I", "G", "H", "T", "E", "D", "S", "U", "M">>}
          THEN SAW(h, refs, w, dirs)
        ELSE IF name \in {<<"W", "P", "M">>,
                          <<"W", "E", "I", "G", "H", "T", "E", "D",
                            "P", "R", "O", "D", "U", "C", "T">>}
          THEN WPM(h, refs, w, dirs)
        ELSE IF name = <<"T", "O", "P", "S", "I", "S">>
          THEN TOPSIS(h, refs, w, dirs)
        ELSE IF name = <<"V", "I", "K", "O", "R">>
          THEN VIKOR(h, refs, w, dirs, OrElse(opts.v, <<1, 2>>))
        ELSE IF name \in {<<"M", "O", "O", "R", "A">>,
                          <<"M", "U", "L", "T", "I", "M", "O", "O", "R", "A">>}
          THEN MOORA(h, refs, w, dirs)
        ELSE IF name = <<"W", "A", "S", "P", "A", "S">>
          THEN WASPAS(h, refs, w, dirs, OrElse(opts.lambda, <<1, 2>>))
        ELSE IF name = <<"C", "O", "P", "R", "A", "S">>
          THEN COPRAS(h, refs, w, dirs)
        ELSE IF name = <<"E", "D", "A", "S">>
          THEN EDAS(h, refs, w, dirs)
        ELSE IF name = <<"C", "O", "D", "A", "S">>
          THEN CODAS(h, refs, w, dirs, OrElse(opts.tau, <<1, 50>>))
        ELSE IF name = <<"A", "R", "A", "S">>
          THEN ARAS(h, refs, w, dirs)
        ELSE unknownMethod(h, refs, w, dirs)

(***************************************************************************)
(* Inputs                                                                  *)
(***************************************************************************)
CellValues == {Num(x) : x \in 0..MaxVal}
WeightValues == {Zero, <<1, 2>>, One}
DirectionValues == {"max", "min"}

\* well-formed triangular fuzzy numbers l <= m <= u of spread at most 1
FuzzyValues ==
    {t \in CellValues \X CellValues \X CellValues :
        /\ Le(t[1], t[2]) /\ Le(t[2], t[3]) /\ Le(t[3], Add(t[1], One))}

NoOptions == [v |-> Undef, lambda |-> Undef, tau |-> Undef]
NoResult == [scores |-> <<>>, ranking |-> <<>>, error |-> FALSE, normalized |-> <<>>]
NoCall == [fn |-> "none", name |-> <<>>, raised |-> 0, arg |-> Zero]

\* the caller's matrix: n rows on the heap, referenced in order
Given(rows, w, dirs, opts) ==
    /\ heap = rows
    /\ matrix = Arr([i \in 1..Len(rows) |-> i])
    /\ weights = w
    /\ directions = dirs
    /\ options = opts
    /\ call = NoCall
    /\ result = NoResult
    /\ prev = NoResult
    /\ pc = "ready"

\* weight vectors: shares that sum to 1, and the all-zero vector
WeightVectors(c) == {w \in [1..c -> WeightValues] : Sum(w) \in {Zero, One}}

\* a rectangular crisp matrix with weights and directions of matching length
InitCrisp ==
    \E n \in 1..MaxAlts, c \in 1..MaxCrit :
        \E rows \in [1..n -> [1..c -> CellValues]],
           w \in WeightVectors(c), dirs \in [1..c -> DirectionValues] :
            Given(rows, w, dirs, NoOptions)

\* a rectangular fuzzy matrix of at most MaxAlts cells, with crisp weights
InitFuzzy ==
    \E n \in 1..MaxAlts, c \in 1..MaxCrit :
        /\ n * c <= MaxAlts
        /\ \E rows \in [1..n -> [1..c -> FuzzyValues]],
              w \in WeightVectors(c), dirs \in [1..c -> DirectionValues] :
               Given(rows, w, dirs, NoOptions)

\* rows that are permutations of the row <<0, 1, ..>> of PermCrit criteria,
\* under equal positive weights, all criteria maximize
PermutedRows ==
    {r \in [1..PermCrit -> {Num(x) : x \in 0..(PermCrit - 1)}] :
        \A x \in 0..(PermCrit - 1) : \E j \in 1..PermCrit : r[j] = Num(x)}

InitPermuted ==
    \E n \in 1..MaxAlts :
        \E rows \in [1..n -> PermutedRows], x \in WeightValues \ {Zero} :
            Given(rows, [j \in 1..PermCrit |-> x], [j \in 1..PermCrit |-> "max"], NoOptions)

\* method names handed to calculateMCDM: spellings of the known methods and
\* aliases, in several cases and with separators
KnownNames ==
    {<<"S", "A", "W">>,
     <<"s", "a", "w">>,
     <<"W", "S", "M">>,
     <<"w", "s", "m">>,
     <<"W", "s", "m">>,
     <<"w", "-", "s", "-", "m">>,
     <<"w", "e", "i", "g", "h", "t", "e", "d", " ", "s", "u", "m">>,
     <<"W", "e", "i", "g", "h", "t", "e", "d", "-", "S", "u", "m">>,
     <<"W", "P", "M">>,
     <<"w", "e", "i", "g", "h", "t", "e", "d", " ", "p", "r", "o", "d", "u", "c", "t">>,
     <<"T", "O", "P", "S", "I", "S">>,
     <<"t", "o", "p", "s", "i", "s">>,
     <<"V", "i", "k", "o", "r">>,
     <<"V", "I", "K", "O", "R">>,
     <<"m", "o", "o", "r", "a">>,
     <<"m", "u", "l", "t", "i", "-", "m", "o", "o", "r", "a">>,
     <<"M", "U", "L", "T", "I", "M", "O", "O", "R", "A">>,
     <<"W", "A", "S", "P", "A", "S">>,
     <<"w", "a", "s", " ", "p", "a", "s">>,
     <<"C", "O", "P", "R", "A", "S">>,
     <<"c", "o", "p", "r", "a", "s">>,
     <<"E", "D", "A", "S">>,
     <<"e", "-", "d", "a", "s">>,
     <<"C", "O", "D", "A", "S">>,
     <<"c", "o", "d", "a", "s">>,
     <<"A", "R", "A", "S">>,
     <<"a", "r", "a", "s">>}

\* names that match no method and no alias
UnknownNames ==
    {<<>>,
     <<"A", "H", "P">>,
     <<"P", "R", "O", "M", "E", "T", "H", "E", "E">>,
     <<"w", "e", "i", "g", "h", "t", "e", "d", "_", "s", "u", "m">>,
     <<"S", "A", "W", "S">>,
     <<"T", "O", "P", "S", "I", "S", "2">>}

MethodNames == KnownNames \cup UnknownNames

\* DispatchAlts alternatives on MaxCrit criteria, weights summing to 1
InitDispatch ==
    \E rows \in [1..DispatchAlts -> [1..MaxCrit -> CellValues]],
       w \in {v \in WeightVectors(MaxCrit) : Sum(v) = One},
       dirs \in [1..MaxCrit -> DirectionValues] :
        Given(rows, w, dirs, NoOptions)

\* inputs whose dimensions disagree: an empty matrix, or weights or directions
\* with fewer or more entries than the matrix has columns
InitMismatched ==
    \E n \in 0..DimAlts, c \in 1..MaxCrit :
        \E lw \in 0..(c + 1), ld \in 0..(c + 1) :
            /\ n = 0 \/ lw # c \/ ld # c
            /\ \E rows \in [1..n -> [1..c -> CellValues \ {Zero}]],
                  w \in [1..lw -> WeightValues \ {Zero}],
                  dirs \in [1..ld -> DirectionValues] :
                   Given(rows, w, dirs, NoOptions)

\* one fuzzy cell with weights or directions of the wrong length
InitFuzzyMismatched ==
    \E lw \in 0..2, ld \in 0..2 :
        /\ lw # 1 \/ ld # 1
        /\ \E rows \in [1..1 -> [1..1 -> FuzzyValues]],
              w \in [1..lw -> WeightValues \ {Zero}],
              dirs \in [1..ld -> DirectionValues] :
               Given(rows, w, dirs, NoOptions)

\* a compromise alternative <<c, d>> between a specialist of the second
\* criterion and a specialist of the first, under every weighting
MonoValues == {Num(x) : x \in 0..MaxMonoVal}
MonoWeights == [1..2 -> {Zero, <<1, 4>>, <<1, 2>>, One}]
MonoDirections == [1..2 -> DirectionValues] \ {<<"min", "min">>}

InitMono ==
    \E c \in MonoValues, d \in MonoValues, w \in MonoWeights, dirs \in MonoDirections :
        Given(<<<<c, d>>, <<Zero, Num(MaxMonoVal - 1)>>, <<Num(MaxMonoVal), Zero>>>>,
              w, dirs, NoOptions)

\* doubles: integer cells 0..MaxScaleVal in the second alternative, with
\* weights written as decimal literals
ScaleValues == {F64(Num(x)) : x \in 0..MaxScaleVal}
ScaleWeights == {<<F64(<<1, 5>>), F64(<<3, 10>>)>>, <<F64(<<1, 2>>), F64(<<1, 2>>)>>}
ScaleFactors == {F64(Num(2)), F64(Num(3))}
InitScale ==
    \E c \in ScaleValues, d \in ScaleValues, w \in ScaleWeights,
       dirs \in [1..2 -> DirectionValues] :
        Given(<<<<Zero, F64(One)>>, <<c, d>>>>, w, dirs, NoOptions)

\* VIKOR on doubles: three alternatives on two criteria, the strategy weight
\* v left out (the default 0.5) or passed
VikorValues == {F64(Num(x)) : x \in 0..MaxVikorVal}
VikorWeights == {<<F64(<<1, 10>>), F64(<<1, 10>>)>>, <<F64(<<3, 10>>), F64(<<7, 10>>)>>}
VikorV == {Undef, Zero, F64(<<1, 4>>), One64}
InitVikor ==
    \E a \in {Zero, One64}, b \in VikorValues, c \in VikorValues, w \in VikorWeights,
       dirs \in [1..2 -> DirectionValues], v \in VikorV :
        Given(<<<<Zero, Zero>>, <<Zero, c>>, <<a, b>>>>, w, dirs, [NoOptions EXCEPT !.v = v])

\* a single criterion: two or three alternatives with distinct positive
\* values and a positive weight
SingleValues == {Num(x) : x \in 1..MaxSingleVal}
InitSingle ==
    \E n \in 2..3 :
        \E rows \in [1..n -> [1..1 -> SingleValues]], w \in {<<One>>, <<<<1, 2>>>>},
           dirs \in [1..1 -> DirectionValues] :
            /\ \A a, b \in 1..n : a # b => rows[a] # rows[b]
            /\ Given(rows, w, dirs, NoOptions)

\* TOPSIS on doubles: the alternative (1, 1) and two more on two maximize criteria
TopsisValues == {F64(Num(x)) : x \in 0..MaxTopsisVal}
TopsisWeights == {<<F64(<<1, 2>>), F64(<<1, 2>>)>>, <<F64(<<3, 10>>), F64(<<7, 10>>)>>}
InitTopsis ==
    \E a \in TopsisValues, b \in TopsisValues, c \in TopsisValues, d \in TopsisValues,
       w \in TopsisWeights :
        Given(<<<<One64, One64>>, <<a, b>>, <<c, d>>>>, w, <<"max", "max">>, NoOptions)

\* a crisp value: an integer or a number of tenths, of either sign
CrispValues == {F64(<<n, d>>) : n \in (0 - MaxCrisp)..MaxCrisp, d \in {1, 10}}
Spreads == {Undef, Zero, F64(<<1, 2>>)}
InitCrispValue == \E c \in CrispValues : Given(<<<<c>>>>, <<>>, <<>>, NoOptions)

\* two expert matrices of triangular fuzzy numbers, of up to MaxExpertDim
\* rows and columns each, with the method of aggregation; matrix holds the
\* rows of the first expert and then those of the second; identical pairs are
\* drawn from a larger set of cells
FuzzyCells64 == {<<Zero, F64(<<1, 2>>), One64>>, <<F64(<<3, 10>>), F64(<<1, 2>>), F64(<<7, 10>>)>>}
MoreFuzzyCells64 ==
    FuzzyCells64 \cup {<<F64(<<1, 10>>), F64(<<1, 5>>), F64(<<9, 10>>)>>, <<Zero, Zero, F64(<<1, 4>>)>>}
ExpertMatrices(cells) ==
    UNION {[1..n -> [1..c -> cells]] : n \in 1..MaxExpertDim, c \in 1..MaxExpertDim}
ExpertPairs ==
    (ExpertMatrices(FuzzyCells64) \X ExpertMatrices(FuzzyCells64))
        \cup {<<A, A>> : A \in ExpertMatrices(MoreFuzzyCells64)}
AggregationMethods == {"geometric", "arithmetic"}
InitExperts ==
    \E pair \in ExpertPairs, method \in AggregationMethods : \E A \in {pair[1]}, B \in {pair[2]} :
        /\ heap = A \o B
        /\ matrix = <<Arr([i \in 1..Len(A) |-> i]), Arr([i \in 1..Len(B) |-> Len(A) + i])>>
        /\ weights = <<>>
        /\ directions = <<>>
        /\ options = [method |-> method]
        /\ call = NoCall
        /\ result = NoResult
        /\ prev = NoResult
        /\ pc = "ready"

\* one row of two cells, each a string of up to MaxTermLen characters or a
\* number, with a linguistic scale, a spread and an output format
TermChars == {"h", "H", "i", " "}
Terms == UNION {[1..n -> TermChars] : n \in 0..MaxTermLen}
LinguisticCells == {StringCell(s) : s \in Terms} \cup {NumberCell(Half64)}
HighTFN == <<F64(<<7, 10>>), F64(<<9, 10>>), One64>>
MidTFN == <<F64(<<3, 10>>), F64(<<1, 2>>), F64(<<7, 10>>)>>
LinguisticScales ==
    { <<>>,
      <<[term |-> <<"H", "i", "g", "h">>, abbreviation |-> <<>>, fuzzyNumber |-> HighTFN],
        [term |-> <<"h", "i">>, abbreviation |-> <<>>, fuzzyNumber |-> MidTFN]>>,
      <<[term |-> <<" ", "H", "i">>, abbreviation |-> <<"H">>, fuzzyNumber |-> MidTFN]>> }
HybridConfigs ==
    { [defaultSpread |-> Undef, outputFormat |-> "fuzzy"],
      [defaultSpread |-> Half64, outputFormat |-> "fuzzy"],
      [defaultSpread |-> Undef, outputFormat |-> "crisp"] }
InitLinguistic ==
    \E c1 \in LinguisticCells, c2 \in LinguisticCells, scale \in LinguisticScales,
       config \in HybridConfigs :
        Given(<<<<c1, c2>>>>, <<>>, <<>>,
              [linguisticScale |-> scale, defaultSpread |-> config.defaultSpread,
               outputFormat |-> config.outputFormat])

\* two triangular fuzzy numbers, well-formed or not, in one row
TfnValues == {F64(Num(0 - 1)), Zero, F64(<<1, 10>>), F64(<<3, 10>>)}
Tfns == TfnValues \X TfnValues \X TfnValues
InitTfnPair == \E a \in Tfns, b \in Tfns : Given(<<<<a, b>>>>, <<>>, <<>>, NoOptions)

\* an analysis of two or three alternatives and up to MaxSensCrit criteria
\* with its base weights, the type of sensitivity analysis chosen and the
\* names of alternatives and criteria (distinct, or with repeated and empty ones)
SensWeightValues == {Zero, <<1, 5>>, <<2, 5>>, <<4, 5>>}
SensWeights ==
    {w \in UNION {[1..n -> SensWeightValues] : n \in 1..MaxSensCrit} : Lt(Zero, FoldSum(w, 1, Zero))}
SensRows == <<<<Num(3), Num(1), Num(2)>>, <<Num(1), Num(3), Num(2)>>, <<Num(2), Num(2), Num(1)>>>>
SensTypes ==
    { [analysisType |-> "oat", percentageChange |-> 20],
      [analysisType |-> "percentage", percentageChange |-> 20],
      [analysisType |-> "percentage", percentageChange |-> 50],
      [analysisType |-> "extreme", percentageChange |-> 20] }
SensLogic ==
    { [aggregation |-> "Distance-to-Ideal", first |-> "max"],
      [aggregation |-> "Weighted-Sum", first |-> "min"] }
SensNames ==
    { [alternatives |-> <<>>, names |-> <<"c1", "c2", "c3">>],
      [alternatives |-> <<"X", "X", "">>, names |-> <<"c1", "c1", "">>] }
InitSensitivity ==
    \E w \in SensWeights, numAlts \in 2..3, type \in SensTypes, logic \in SensLogic,
       names \in SensNames :
        Given(Arr([i \in 1..numAlts |-> SubSeq(SensRows[i], 1, Len(w))]), w,
              Arr([j \in 1..Len(w) |-> IF j = 1 THEN logic.first ELSE "max"]),
              [analysisType |-> type.analysisType, percentageChange |-> type.percentageChange,
               aggregation |-> logic.aggregation, alternatives |-> names.alternatives,
               names |-> names.names])

\* one analysis of three alternatives and two criteria with its logic module
BaseCaseValues == {F64(Num(1)), F64(Num(2)), F64(Num(3))}
BaseCaseWeights == {<<F64(<<1, 2>>), F64(<<1, 2>>)>>, <<F64(<<1, 5>>), F64(<<4, 5>>)>>}
Normalizations == {"Vector", "Sum", "Max-Min", "Linear"}
Aggregations == {"Weighted-Sum", "Distance-to-Ideal"}
InitAnalysis ==
    \E a \in BaseCaseValues, b \in BaseCaseValues, w \in BaseCaseWeights,
       dirs \in [1..2 -> {"max", "min"}], normalization \in Normalizations,
       aggregation \in Aggregations :
        Given(<<<<F64(Num(2)), F64(Num(2))>>, <<a, b>>, <<F64(Num(3)), F64(Num(1))>>>>,
              w, dirs,
              [normalization |-> normalization, aggregation |-> aggregation,
               alternatives |-> <<>>])

\* the methods that take a parameter from options
ParametricNames ==
    {<<"V", "I", "K", "O", "R">>, <<"W", "A", "S", "P", "A", "S">>,
     <<"C", "O", "D", "A", "S">>}

\* an option is absent, 0 or 0.25
OptionValues == {Undef, Zero, <<1, 4>>}

\* DispatchAlts alternatives of positive values, weights summing to 1 and
\* options.v, options.lambda and options.tau each supplied or absent
InitOptions ==
    \E rows \in [1..DispatchAlts -> [1..MaxCrit -> CellValues \ {Zero}]],
       w \in {x \in WeightVectors(MaxCrit) : Sum(x) = One},
       dirs \in [1..MaxCrit -> DirectionValues],
       opts \in [v : OptionValues, lambda : OptionValues, tau : OptionValues] :
        Given(rows, w, dirs, opts)

\* two or three alternatives on one minimize criterion of positive weight,
\* with well-formed positive fuzzy values
InitFuzzyMinimize ==
    \E n \in 2..MaxAlts :
        \E rows \in [1..n -> [1..1 -> {t \in FuzzyValues : Lt(Zero, t[1])}]],
           w \in [1..1 -> WeightValues \ {Zero}] :
            Given(rows, w, <<"min">>, NoOptions)

Requests == 1..MaxRequests
ErrorKinds == {"quota", "other"}

\* no request has called executeWithFallback yet; zero to MaxKeys keys are
\* configured and currentKeyIndex is where earlier requests left it
InitFallback ==
    \E numKeys \in 0..MaxKeys :
        \E currentKeyIndex \in {k \in 0..MaxKeys : k = 0 \/ k < numKeys} :
            /\ options = [keys |-> numKeys]
            /\ heap = [currentKeyIndex |-> currentKeyIndex]
            /\ pc = [r \in Requests |-> "idle"]
            /\ call = [r \in Requests |->
                          [triedKeys |-> {}, lastError |-> "undefined", key |-> 0]]
            /\ result = [r \in Requests |-> [returned |-> FALSE, key |-> 0 - 1, error |-> "undefined"]]
            /\ prev = [r \in Requests |-> <<>>]
            /\ matrix = <<>> /\ weights = <<>> /\ directions = <<>>

IsFuzzyInput == Len(matrix) > 0 /\ Len(heap[matrix[1]]) > 0 /\ Len(heap[matrix[1]][1]) = 3

(***************************************************************************)
(* Calls                                                                   *)
(***************************************************************************)
\* a ranking method returns { scores, ranking } or throws
Finish(fn, name, out) ==
    /\ heap' = out.heap
    /\ \E rk \in Rankings(out.keys) :
           result' = [scores |-> out.scores, ranking |-> rk, error |-> out.error,
                      normalized |-> <<>>]
    /\ call' = [fn |-> fn, name |-> name, raised |-> 0, arg |-> Zero]
    /\ prev' = result
    /\ pc' = "done"
    /\ UNCHANGED <<matrix, weights, directions, options>>

\* a normalization returns the normalized matrix
FinishNormalization(fn, out) ==
    /\ heap' = out.heap
    /\ result' = [scores |-> <<>>, ranking |-> <<>>, error |-> FALSE,
                  normalized |-> out.refs]
    /\ call' = [fn |-> fn, name |-> <<>>, raised |-> 0, arg |-> Zero]
    /\ prev' = result
    /\ pc' = "done"
    /\ UNCHANGED <<matrix, weights, directions, options>>

CrispReady == pc = "ready" /\ ~IsFuzzyInput

CallSAW == CrispReady /\ Finish("SAW", <<>>, SAW(heap, matrix, weights, directions))
CallWPM == CrispReady /\ Finish("WPM", <<>>, WPM(heap, matrix, weights, directions))
CallTOPSIS == CrispReady /\ Finish("TOPSIS", <<>>, TOPSIS(heap, matrix, weights, directions))
CallVIKOR ==
    /\ CrispReady
    /\ Finish("VIKOR", <<>>,
              VIKOR(heap, matrix, weights, directions, Default(options.v, <<1, 2>>)))
CallMOORA == CrispReady /\ Finish("MOORA", <<>>, MOORA(heap, matrix, weights, directions))
CallWASPAS ==
    /\ CrispReady
    /\ Finish("WASPAS", <<>>,
              WASPAS(heap, matrix, weights, directions, Default(options.lambda, <<1, 2>>)))
CallCOPRAS == CrispReady /\ Finish("COPRAS", <<>>, COPRAS(heap, matrix, weights, directions))
CallEDAS == CrispReady /\ Finish("EDAS", <<>>, EDAS(heap, matrix, weights, directions))
CallCODAS ==
    /\ CrispReady
    /\ Finish("CODAS", <<>>,
              CODAS(heap, matrix, weights, directions, Default(options.tau, <<1, 50>>)))
CallARAS == CrispReady /\ Finish("ARAS", <<>>, ARAS(heap, matrix, weights, directions))
CallFuzzyTOPSIS ==
    /\ pc = "ready" /\ (IsFuzzyInput \/ Len(matrix) = 0)
    /\ Finish("fuzzyTOPSIS", <<>>, fuzzyTOPSIS(heap, matrix, weights, directions))

CallVector ==
    CrispReady /\ FinishNormalization("vector", Normalization_vector(heap, matrix, directions))
CallLinearMax ==
    CrispReady /\ FinishNormalization("linearMax", Normalization_linearMax(heap, matrix, directions))
CallMinMax ==
    CrispReady /\ FinishNormalization("minMax", Normalization_minMax(heap, matrix, directions))
CallSum ==
    CrispReady /\ FinishNormalization("sum", Normalization_sum(heap, matrix, directions))

CallRanking ==
    \/ CallSAW \/ CallWPM \/ CallTOPSIS \/ CallVIKOR \/ CallMOORA
    \/ CallWASPAS \/ CallCOPRAS \/ CallEDAS \/ CallCODAS \/ CallARAS
    \/ CallFuzzyTOPSIS

CallNormalization == CallVector \/ CallLinearMax \/ CallMinMax \/ CallSum

\* calculateMCDM(methodName, matrix, weights, directions, options)
Dispatch ==
    /\ CrispReady
    /\ \E methodName \in MethodNames :
           Finish("calculateMCDM", methodName,
                  calculateMCDM(methodName, heap, matrix, weights, directions, options))

\* the caller raises one cell of a maximize criterion by 1 and runs the
\* same method again on the new matrix
RaiseAndRerun ==
    /\ pc = "done" /\ call.fn \in {"SAW", "TOPSIS"}
    /\ \E i \in 1..Len(matrix), j \in 1..Len(directions) :
           /\ directions[j] = "max"
           /\ Lt(heap[matrix[i]][j], Num(MaxMonoVal))
           /\ LET raised == [heap EXCEPT ![matrix[i]][j] = Add(@, One)]
                  out == IF call.fn = "SAW"
                         THEN SAW(raised, matrix, weights, directions)
                         ELSE TOPSIS(raised, matrix, weights, directions)
              IN  /\ heap' = out.heap
                  /\ \E rk \in Rankings(out.keys) :
                         result' = [scores |-> out.scores, ranking |-> rk,
                                    error |-> out.error, normalized |-> <<>>]
                  /\ call' = [call EXCEPT !.raised = i]
    /\ prev' = result
    /\ pc' = "raised"
    /\ UNCHANGED <<matrix, weights, directions, options>>

CallSAW64 == pc = "ready" /\ Finish("SAW", <<>>, SAW64(heap, matrix, weights, directions))
CallMOORA64 == pc = "ready" /\ Finish("MOORA", <<>>, MOORA64(heap, matrix, weights, directions))

\* Fuzzification.triangularSpread on the crisp value: a new fuzzy number on the heap
CallTriangularSpread ==
    /\ pc = "ready"
    /\ \E spread \in Spreads :
           /\ heap' = Append(heap, <<triangularSpread(heap[matrix[1]][1],
                                                      Default(spread, F64(<<1, 5>>)))>>)
           /\ call' = [fn |-> "triangularSpread", name |-> <<>>, raised |-> 0,
                       arg |-> Default(spread, F64(<<1, 5>>))]
    /\ result' = [NoResult EXCEPT !.normalized = <<Len(heap) + 1>>]
    /\ prev' = result
    /\ pc' = "fuzzified"
    /\ UNCHANGED <<matrix, weights, directions, options>>

\* Defuzzification.centroid on the fuzzy number
CallCentroid ==
    /\ pc = "fuzzified"
    /\ result' = [result EXCEPT !.scores = <<centroid(heap[result.normalized[1]][1])>>]
    /\ call' = [call EXCEPT !.fn = "centroid"]
    /\ prev' = result
    /\ pc' = "done"
    /\ UNCHANGED <<heap, matrix, weights, directions, options>>

\* the result of aggregateExpertEvaluations on the experts in the order given
Aggregated(expertRefs, next) ==
    \E out \in {aggregateExpertEvaluations(heap, expertRefs, options.method)} :
        /\ heap' = out.heap
        /\ result' = [scores |-> <<>>, ranking |-> <<>>, error |-> out.error,
                      normalized |-> out.refs]
        /\ call' = [fn |-> "aggregateExpertEvaluations", name |-> <<>>, raised |-> 0,
                    arg |-> Zero]
        /\ prev' = result
        /\ pc' = next

CallAggregate ==
    /\ pc = "ready"
    /\ Aggregated(matrix, "done")
    /\ UNCHANGED <<matrix, weights, directions, options>>

\* the caller passes the same experts in the opposite order
SwapAndAggregate ==
    /\ pc = "done"
    /\ matrix' = <<matrix[2], matrix[1]>>
    /\ Aggregated(<<matrix[2], matrix[1]>>, "swapped")
    /\ UNCHANGED <<weights, directions, options>>

\* the converted rows are new rows on the heap
Converted(fn, rows) ==
    /\ heap' = heap \o rows
    /\ result' = [scores |-> <<>>, ranking |-> <<>>, error |-> FALSE,
                  normalized |-> Arr([i \in 1..Len(rows) |-> Len(heap) + i])]
    /\ call' = [fn |-> fn, name |-> <<>>, raised |-> 0, arg |-> Zero]
    /\ prev' = result
    /\ pc' = "done"
    /\ UNCHANGED <<matrix, weights, directions, options>>

\* linguisticToFuzzyMatrix(matrix, createLinguisticLookup(scale))
CallLinguisticToFuzzyMatrix ==
    /\ pc = "ready"
    /\ Converted("linguisticToFuzzyMatrix",
                 linguisticToFuzzyMatrix(Deref(heap, matrix),
                                         createLinguisticLookup(options.linguisticScale)))

\* processHybridMatrix(matrix, config, outputFormat)
CallProcessHybridMatrix ==
    /\ pc = "ready"
    /\ Converted("processHybridMatrix",
                 processHybridMatrix(Deref(heap, matrix), options, options.outputFormat))

\* FuzzyArithmetic.subtract(a, b): the difference is a new row on the heap
CallSubtract ==
    /\ pc = "ready"
    /\ heap' = Append(heap, <<subtract(heap[matrix[1]][1], heap[matrix[1]][2])>>)
    /\ result' = [scores |-> <<>>, ranking |-> <<>>, error |-> FALSE,
                  normalized |-> <<Len(heap) + 1>>]
    /\ call' = [fn |-> "subtract", name |-> <<>>, raised |-> 0, arg |-> Zero]
    /\ prev' = result
    /\ pc' = "done"
    /\ UNCHANGED <<matrix, weights, directions, options>>

\* runAnalysis: setScenarios(results)
CallRunAnalysis ==
    /\ pc = "ready"
    /\ result' = [scores |-> runAnalysis(Deref(heap, matrix), weights, directions, options),
                  ranking |-> <<>>, error |-> FALSE, normalized |-> <<>>]
    /\ call' = [fn |-> "runAnalysis", name |-> <<>>, raised |-> 0, arg |-> Zero]
    /\ prev' = result
    /\ pc' = "analyzed"
    /\ UNCHANGED <<heap, matrix, weights, directions, options>>

\* the next render recomputes the memo rankAnalysis from scenarios
RenderRankAnalysis ==
    /\ pc = "analyzed"
    /\ result' = [result EXCEPT !.ranking = rankAnalysis(result.scores)]
    /\ call' = [call EXCEPT !.fn = "rankAnalysis"]
    /\ prev' = result
    /\ pc' = "done"
    /\ UNCHANGED <<heap, matrix, weights, directions, options>>

\* MCDMCalculator renders its results for the analysis
RenderResults ==
    /\ pc = "ready"
    /\ result' = [scores |-> results(Deref(heap, matrix), weights, directions, options,
                                     options.alternatives),
                  ranking |-> <<>>, error |-> FALSE, normalized |-> <<>>]
    /\ call' = [fn |-> "results", name |-> <<>>, raised |-> 0, arg |-> Zero]
    /\ prev' = result
    /\ pc' = "shown"
    /\ UNCHANGED <<heap, matrix, weights, directions, options>>

\* the sensitivity view computes its base case for the same analysis
CallCalculateScores ==
    /\ pc = "shown"
    /\ result' = [scores |-> calculateScores64(Deref(heap, matrix), weights, directions, options,
                                               options.alternatives),
                  ranking |-> <<>>, error |-> FALSE, normalized |-> <<>>]
    /\ call' = [fn |-> "calculateScores", name |-> <<>>, raised |-> 0, arg |-> Zero]
    /\ prev' = result
    /\ pc' = "done"
    /\ UNCHANGED <<heap, matrix, weights, directions, options>>

\* calculateMCDM('VIKOR' | 'WASPAS' | 'CODAS', matrix, weights, directions, options)
DispatchParametric ==
    /\ CrispReady
    /\ \E methodName \in ParametricNames :
           Finish("calculateMCDM", methodName,
                  calculateMCDM(methodName, heap, matrix, weights, directions, options))

\* throw lastError
ThrowLastError(r, currentKeyIndex, lastError, invoked) ==
    /\ heap' = [currentKeyIndex |-> currentKeyIndex]
    /\ call' = [call EXCEPT ![r].lastError = lastError]
    /\ pc' = [pc EXCEPT ![r] = "thrown"]
    /\ result' = [result EXCEPT ![r] = [returned |-> FALSE, key |-> 0 - 1, error |-> lastError]]
    /\ prev' = [prev EXCEPT ![r] = invoked]
    /\ UNCHANGED <<matrix, weights, directions, options>>

\* while (triedKeys.size < API_KEYS.length): the key at currentKeyIndex is
\* added to triedKeys and the operation is started with it; prev[r] lists
\* the invocations of the operation by request r and how each one ended
EnterLoop(r, currentKeyIndex, triedKeys, lastError, invoked) ==
    IF Cardinality(triedKeys) < options.keys
    THEN /\ heap' = [currentKeyIndex |-> currentKeyIndex]
         /\ call' = [call EXCEPT ![r] = [triedKeys |-> triedKeys \cup {currentKeyIndex},
                                         lastError |-> lastError,
                                         key |-> currentKeyIndex]]
         /\ pc' = [pc EXCEPT ![r] = "awaiting"]
         /\ prev' = [prev EXCEPT ![r] =
                        Append(invoked, [key |-> currentKeyIndex, outcome |-> "pending"])]
         /\ UNCHANGED <<matrix, weights, directions, options, result>>
    ELSE ThrowLastError(r, currentKeyIndex, lastError, invoked)

\* the last invocation of request r has ended with the outcome given
Ended(r, outcome) == [prev[r] EXCEPT ![Len(prev[r])].outcome = outcome]

\* a request calls executeWithFallback(operation)
StartRequest(r) ==
    /\ pc[r] = "idle"
    /\ EnterLoop(r, heap.currentKeyIndex, {}, "undefined", <<>>)

\* the awaited operation resolves: return await operation(getGenAI())
OperationResolves(r) ==
    /\ pc[r] = "awaiting"
    /\ pc' = [pc EXCEPT ![r] = "returned"]
    /\ result' = [result EXCEPT ![r] = [returned |-> TRUE, key |-> call[r].key, error |-> "none"]]
    /\ prev' = [prev EXCEPT ![r] = Ended(r, "ok")]
    /\ UNCHANGED <<heap, matrix, weights, directions, options, call>>

\* the awaited operation rejects: the catch block
OperationRejects(r) ==
    /\ pc[r] = "awaiting"
    /\ \E error \in ErrorKinds :
           IF isQuotaError(error)
           THEN \E rotation \in {rotateApiKey(heap.currentKeyIndex, options.keys)} :
                    IF ShouldRetry(rotation, call[r].triedKeys)
                    THEN EnterLoop(r, rotation.currentKeyIndex, call[r].triedKeys,
                                   error, Ended(r, error))
                    ELSE ThrowLastError(r, rotation.currentKeyIndex, error, Ended(r, error))
           ELSE ThrowLastError(r, heap.currentKeyIndex, error, Ended(r, error))

CallTOPSIS64 ==
    pc = "ready" /\ Finish("TOPSIS", <<>>, TOPSIS64(heap, matrix, weights, directions))

CallVIKOR64 ==
    /\ pc = "ready"
    /\ Finish("VIKOR", <<>>,
              VIKOR64(heap, matrix, weights, directions, Default(options.v, F64(<<1, 2>>))))

\* the caller multiplies every weight by k and runs the same method again
ScaleAndRerun ==
    /\ pc = "done" /\ call.fn \in {"SAW", "MOORA"}
    /\ \E k \in ScaleFactors :
       \E scaled \in {Arr([j \in 1..Len(weights) |-> Mul64(weights[j], k)])} :
       \E out \in {IF call.fn = "SAW"
                   THEN SAW64(heap, matrix, scaled, directions)
                   ELSE MOORA64(heap, matrix, scaled, directions)} :
           /\ heap' = out.heap
           /\ weights' = scaled
           /\ \E rk \in Rankings(out.keys) :
                  result' = [scores |-> out.scores, ranking |-> rk,
                             error |-> out.error, normalized |-> <<>>]
           /\ call' = [call EXCEPT !.arg = k]
    /\ prev' = result
    /\ pc' = "scaled"
    /\ UNCHANGED <<matrix, directions, options>>

(***************************************************************************)
(* Spec: every ranking method and every normalization, on valid inputs     *)
(***************************************************************************)
Init == InitCrisp \/ InitFuzzy \/ InitPermuted
Next == CallRanking \/ CallNormalization
Spec == Init /\ [][Next]_vars

(***************************************************************************)
(* SpecDispatch: calculateMCDM under every spelling of the method name     *)
(***************************************************************************)
SpecDispatch == InitDispatch /\ [][Dispatch]_vars

(***************************************************************************)
(* SpecDims: the ranking methods on inputs whose dimensions disagree       *)
(***************************************************************************)
InitDims == InitMismatched \/ InitFuzzyMismatched
SpecDims == InitDims /\ [][CallRanking]_vars

(***************************************************************************)
(* SpecMono: SAW and TOPSIS before and after one cell is raised            *)
(***************************************************************************)
NextMono == CallSAW \/ CallTOPSIS \/ RaiseAndRerun
SpecMono == InitMono /\ [][NextMono]_vars

(***************************************************************************)
(* SpecScale: SAW and MOORA on doubles, before and after the weights are   *)
(* multiplied by a constant                                                *)
(***************************************************************************)
NextScale == CallSAW64 \/ CallMOORA64 \/ ScaleAndRerun
SpecScale == InitScale /\ [][NextScale]_vars

(***************************************************************************)
(* SpecVikor: VIKOR on doubles under every strategy weight                 *)
(***************************************************************************)
SpecVikor == InitVikor /\ [][CallVIKOR64]_vars

(***************************************************************************)
(* SpecSingle: calculateMCDM on a single criterion                         *)
(***************************************************************************)
SpecSingle == InitSingle /\ [][Dispatch]_vars

(***************************************************************************)
(* SpecTopsis: TOPSIS on doubles                                           *)
(***************************************************************************)
SpecTopsis == InitTopsis /\ [][CallTOPSIS64]_vars

(***************************************************************************)
(* SpecRoundTrip: a crisp value fuzzified and defuzzified                  *)
(***************************************************************************)
NextRoundTrip == CallTriangularSpread \/ CallCentroid
SpecRoundTrip == InitCrispValue /\ [][NextRoundTrip]_vars

(***************************************************************************)
(* SpecExperts: two expert matrices aggregated, in either order            *)
(***************************************************************************)
NextExperts == CallAggregate \/ SwapAndAggregate
SpecExperts == InitExperts /\ [][NextExperts]_vars

(***************************************************************************)
(* SpecLinguistic: a row of linguistic cells converted                     *)
(***************************************************************************)
NextLinguistic == CallLinguisticToFuzzyMatrix \/ CallProcessHybridMatrix
SpecLinguistic == InitLinguistic /\ [][NextLinguistic]_vars

(***************************************************************************)
(* SpecSubtract: one fuzzy number subtracted from another                  *)
(***************************************************************************)
SpecSubtract == InitTfnPair /\ [][CallSubtract]_vars

(***************************************************************************)
(* SpecSensitivity: a sensitivity analysis run and its stability rendered  *)
(***************************************************************************)
NextSensitivity == CallRunAnalysis \/ RenderRankAnalysis
SpecSensitivity == InitSensitivity /\ [][NextSensitivity]_vars

(***************************************************************************)
(* SpecBaseCase: the calculator's ranking, then the sensitivity base case  *)
(***************************************************************************)
NextBaseCase == RenderResults \/ CallCalculateScores
SpecBaseCase == InitAnalysis /\ [][NextBaseCase]_vars

NextOptions == DispatchParametric
SpecOptions == InitOptions /\ [][NextOptions]_vars

SpecFuzzyMinimize == InitFuzzyMinimize /\ [][CallFuzzyTOPSIS]_vars

NextFallback ==
    \E r \in Requests : StartRequest(r) \/ OperationResolves(r) \/ OperationRejects(r)
SpecFallback == InitFallback /\ [][NextFallback]_vars

\* every awaited operation settles, and its continuation runs
SpecFallbackFair ==
    /\ SpecFallback
    /\ \A r \in Requests : WF_vars(OperationResolves(r) \/ OperationRejects(r))

(***************************************************************************)
(* Claims checked under Spec                                               *)
(***************************************************************************)
RankingFns == {"SAW", "WPM", "TOPSIS", "VIKOR", "MOORA", "WASPAS", "COPRAS",
               "EDAS", "CODAS", "ARAS", "fuzzyTOPSIS"}
Ranked == pc = "done" /\ call.fn \in RankingFns
Alts == 1..Len(matrix)

\* C1: every ranking method and fuzzyTOPSIS, on a non-empty rectangular matrix
\* of N alternatives, returns without an error a ranking with one rank per
\* alternative, the ranks being exactly 1..N (no duplicate, no gap)
C1_RankIsPermutation ==
    Ranked =>
        /\ ~result.error
        /\ DOMAIN result.ranking = Alts
        /\ {result.ranking[i] : i \in Alts} = Alts

\* a method has ranked three alternatives, two of them tied
C1_Witness ==
    /\ Ranked /\ call.fn = "COPRAS" /\ Len(matrix) = 3
    /\ result.scores[1] = result.scores[2] /\ result.scores[3] # result.scores[1]
    /\ {result.ranking[i] : i \in Alts} = 1..3

RowsArePermutations ==
    \A i, k \in Alts :
        \E p \in Permutations(1..Len(heap[matrix[i]])) :
            heap[matrix[k]] = [j \in 1..Len(heap[matrix[i]]) |-> heap[matrix[i]][p[j]]]

EqualWeightsAllMaximize ==
    /\ \A j \in 1..Len(weights) : weights[j] = weights[1] /\ directions[j] = "max"
    /\ Len(weights) > 0 /\ Lt(Zero, weights[1])

C7_ScoresFinite ==
    (Ranked /\ call.fn # "fuzzyTOPSIS") =>
        \A i \in Alts : IsFinite(result.scores[i])

NormalizedCells == Deref(heap, result.normalized)

\* C8: every cell of the output of Normalization.linearMax and of
\* Normalization.minMax, on a non-negative matrix, lies in [0, 1]
C8_NormalizedInUnitInterval ==
    (pc = "done" /\ call.fn \in {"linearMax", "minMax"}) =>
        \A i \in 1..Len(NormalizedCells) : \A j \in 1..Len(NormalizedCells[i]) :
            /\ Le(Zero, NormalizedCells[i][j])
            /\ Le(NormalizedCells[i][j], One)

\* linearMax has normalized a minimize column to a value strictly inside (0, 1)
C8_Witness ==
    /\ pc = "done" /\ call.fn = "linearMax"
    /\ \E i \in 1..Len(NormalizedCells) : \E j \in 1..Len(NormalizedCells[i]) :
           /\ directions[j] = "min"
           /\ Lt(Zero, NormalizedCells[i][j]) /\ Lt(NormalizedCells[i][j], One)

\* C9: a normalization or ranking call leaves the cells of the input matrix,
\* the weights and the directions as they were, and a normalization returns
\* a matrix of new rows with the shape of the input
C9_InputsUnchanged ==
    [][pc = "ready" =>
          /\ Deref(heap', matrix') = Deref(heap, matrix)
          /\ weights' = weights /\ directions' = directions
          /\ call'.fn \in {"vector", "linearMax", "minMax", "sum"} =>
                /\ Len(result'.normalized) = Len(matrix)
                /\ \A i \in 1..Len(matrix) :
                       /\ Len(heap'[result'.normalized[i]]) = Len(heap[matrix[i]])
                       /\ \A k \in 1..Len(matrix) : result'.normalized[i] # matrix[k]]_vars

\* ARAS has returned after normalizing the matrix extended by the optimal row,
\* having written normalized values that differ from the input
C9_Witness ==
    /\ pc = "done" /\ call.fn = "ARAS"
    /\ Len(heap) = 2 * Len(matrix) + 2
    /\ \E i \in Alts : heap[Len(matrix) + 2 + i] # heap[matrix[i]]

(***************************************************************************)
(* Claims checked under SpecDispatch                                       *)
(***************************************************************************)
Dispatched == pc = "done" /\ call.fn = "calculateMCDM"

\* the outcome of a call: thrown or not, the scores and the ranking
SameOutcome(out) ==
    /\ result.error = out.error
    /\ result.scores = out.scores
    /\ result.ranking \in Rankings(out.keys)

\* C4: calculateMCDM with a name that matches no method and no alias returns
\* exactly the scores and the ranking of TOPSIS on the same inputs, without an error
C4_UnknownNameRunsTOPSIS ==
    (Dispatched /\ call.name \in UnknownNames) =>
        /\ ~result.error
        /\ SameOutcome(TOPSIS(heap, matrix, weights, directions))

\* an unknown name has returned a TOPSIS result that SAW would not have returned
C4_Witness ==
    /\ Dispatched /\ call.name = <<"P", "R", "O", "M", "E", "T", "H", "E", "E">>
    /\ result.ranking = <<2, 1>>
    /\ result.scores # SAW(heap, matrix, weights, directions).scores

\* a name without its letter case and without hyphens and spaces
Fold(str) ==
    LET kept == SelectSeq(str, LAMBDA c : c \notin {"-", " "})
    IN  [k \in 1..Len(kept) |->
            IF \E a \in 1..26 : UpperCase[a] = kept[k]
            THEN LowerCase[CHOOSE a \in 1..26 : UpperCase[a] = kept[k]]
            ELSE kept[k]]

Columns == IF Len(matrix) = 0 THEN 0 ELSE Len(heap[matrix[1]])

DimensionsDisagree ==
    \/ Len(matrix) = 0
    \/ Len(weights) # Columns
    \/ Len(directions) # Columns

\* C6 (as claimed): a ranking method called with an empty matrix, or with
\* weights or directions whose length differs from the number of columns,
\* fails with an error and returns no ranking
C6_MismatchIsRejected ==
    (Ranked /\ DimensionsDisagree) => result.error

(***************************************************************************)
(* Claims checked under SpecMono                                           *)
(***************************************************************************)
Raised == pc = "raised"

ScoreNotLower == Le(prev.scores[call.raised], result.scores[call.raised])
RankNotLarger == result.ranking[call.raised] <= prev.ranking[call.raised]

\* C10 (as amended): for SAW, raising one cell of a maximize criterion of one
\* alternative never lowers that alternative's score and never makes its
\* rank number larger
C10_SAWIsMonotone ==
    (Raised /\ call.fn = "SAW") => (ScoreNotLower /\ RankNotLarger)

\* SAW has run again after a raise that lifted the alternative from rank 2 to rank 1
C10_Witness ==
    /\ Raised /\ call.fn = "SAW"
    /\ Lt(prev.scores[call.raised], result.scores[call.raised])
    /\ prev.ranking[call.raised] = 2 /\ result.ranking[call.raised] = 1

\* C10 (as claimed): for SAW and for TOPSIS, raising one cell of a maximize
\* criterion of one alternative never lowers that alternative's score and
\* never makes its rank number larger
C10_SAWAndTOPSISAreMonotone ==
    Raised => (ScoreNotLower /\ RankNotLarger)

(***************************************************************************)
(* Claims checked under SpecScale                                          *)
(***************************************************************************)
Scaled == pc = "scaled"
PowerOfTwo(k) == k \in {F64(Num(2)), F64(Num(4)), F64(Num(8))}
ScoresTimes(k) == \A i \in Alts : result.scores[i] = Mul64(k, prev.scores[i])
SameRanking == result.ranking = prev.ranking

\* C11 (as amended): for SAW and MOORA, multiplying every weight by the same
\* power of two k multiplies every score by k and leaves the ranking unchanged
C11_PowerOfTwoScaling ==
    (Scaled /\ PowerOfTwo(call.arg)) => (ScoresTimes(call.arg) /\ SameRanking)

\* SAW has run again with doubled weights on two alternatives that do not tie
C11_Witness ==
    /\ Scaled /\ call.fn = "SAW" /\ call.arg = F64(Num(2))
    /\ result.ranking = <<2, 1>>
    /\ Lt(Zero, result.scores[1]) /\ Lt(result.scores[1], result.scores[2])

\* C11 (as claimed): for SAW and MOORA, multiplying every weight by the same
\* positive constant k multiplies every score by k and leaves the ranking unchanged
C11_ScalingKeepsRanking ==
    Scaled => (ScoresTimes(call.arg) /\ SameRanking)

(***************************************************************************)
(* Claims checked under SpecVikor                                          *)
(***************************************************************************)
VikorRanked == pc = "done" /\ call.fn = "VIKOR"
VikorData ==
    VIKOR64_Q(Deref(heap, matrix), weights, directions, Default(options.v, F64(<<1, 2>>)))

\* alternative i holds the best value of every column
HoldsBest(i) ==
    \A j \in 1..Len(directions) : \A k \in Alts :
        IF directions[j] = "max" THEN ~Lt64(heap[i][j], heap[k][j])
        ELSE ~Lt64(heap[k][j], heap[i][j])

\* the ranking is in ascending order of x, ties in input order
AscendingBy(x) ==
    \A a, b \in Alts :
        (Lt64(x[a], x[b]) \/ (x[a] = x[b] /\ a < b)) => result.ranking[a] < result.ranking[b]

\* C12 (as claimed): in VIKOR, for every v in [0,1], an alternative that holds
\* the best value (max for maximize criteria, min for minimize criteria) in
\* every column receives Q = 0 (returned score 1) and rank 1
C12_BestGetsRankOne ==
    VikorRanked =>
        \A d \in {VikorData} : \A i \in Alts : HoldsBest(i) =>
            /\ d.Q[i] = Zero
            /\ result.scores[i] = One64
            /\ result.ranking[i] = 1

\* C13 (as amended): VIKOR called with v = 1 ranks the alternatives in
\* ascending order of the normalized S value sNorm alone, and called with
\* v = 0 in ascending order of the normalized R value rNorm alone, ties by
\* input order
C13_RanksByNormalizedSOrR ==
    (VikorRanked /\ options.v \in {Zero, One64}) =>
        \A x \in {IF options.v = One64 THEN VikorData.sNorm ELSE VikorData.rNorm} :
            AscendingBy(x)

\* with v = 1 VIKOR has ranked an alternative of smaller S ahead of one of smaller R
C13_Witness ==
    /\ VikorRanked /\ options.v = One64
    /\ \E d \in {VikorData} : \E a, b \in Alts :
           /\ Lt64(d.S[a], d.S[b]) /\ Lt64(d.R[b], d.R[a])
           /\ result.ranking[a] < result.ranking[b]

\* C13 (as claimed): VIKOR called with v = 1 ranks the alternatives in
\* ascending order of S alone, and called with v = 0 in ascending order of R
\* alone, ties by input order
C13_RanksBySOrR ==
    (VikorRanked /\ options.v \in {Zero, One64}) =>
        \A x \in {IF options.v = One64 THEN VikorData.S ELSE VikorData.R} :
            AscendingBy(x)

(***************************************************************************)
(* Claims checked under SpecSingle                                         *)
(***************************************************************************)
\* alternative i has the smallest value of the only criterion
SmallestValue(i) == \A k \in Alts \ {i} : Lt(heap[matrix[i]][1], heap[matrix[k]][1])

\* C14 (as claimed): for every ranking method reachable through calculateMCDM,
\* on a single-criterion matrix with a minimize direction, positive weight and
\* distinct positive values, the alternative with the smallest value is ranked 1
C14_SmallestCostRanksFirst ==
    (pc = "done" /\ call.fn = "calculateMCDM" /\ directions = <<"min">>) =>
        \A i \in Alts : SmallestValue(i) => result.ranking[i] = 1

(***************************************************************************)
(* Claims checked under SpecTopsis                                         *)
(***************************************************************************)
TopsisRanked == pc = "done" /\ call.fn = "TOPSIS"

\* alternative a is strictly greater than alternative b in every column
Dominates(a, b) ==
    \A j \in 1..Len(directions) : Lt64(heap[matrix[b]][j], heap[matrix[a]][j])

RoundTripped == pc = "done" /\ call.fn = "centroid" /\ call.arg = Zero
Crisp == heap[matrix[1]][1]
NaturalValues == {F64(Num(n)) : n \in 0..MaxCrisp}

\* C16 (as amended): for every non-negative integer crisp value, fuzzifying
\* with zero spread and then defuzzifying by centroid returns the crisp value
\* exactly
C16_RoundTripOfNaturals ==
    (RoundTripped /\ Crisp \in NaturalValues) => result.scores[1] = Crisp

\* the crisp value 7 has made the round trip through the fuzzy number (7, 7, 7)
C16_Witness ==
    /\ RoundTripped /\ Crisp = F64(Num(7))
    /\ heap[result.normalized[1]][1] = <<Crisp, Crisp, Crisp>>
    /\ result.scores[1] = Crisp

\* C16 (as claimed): for every crisp value, fuzzifying with zero spread and
\* then defuzzifying by centroid returns the crisp value exactly
C16_RoundTripIsExact ==
    RoundTripped => result.scores[1] = Crisp

(***************************************************************************)
(* Claims checked under SpecExperts                                        *)
(***************************************************************************)
ExpertA == Deref(heap, matrix[1])
ExpertB == Deref(heap, matrix[2])
AggregatedOnce == pc = "done" /\ call.fn = "aggregateExpertEvaluations"
AllPositive(m) == \A i \in 1..Len(m) : \A j \in 1..Len(m[i]) : \A c \in 1..3 : Lt64(Zero, m[i][j][c])

\* C17 (as amended): the geometric mean of two identical expert matrices
\* whose components are all strictly positive is that matrix, cell by cell
C17_IdenticalPositiveExperts ==
    (AggregatedOnce /\ options.method = "geometric" /\ ExpertA = ExpertB /\ AllPositive(ExpertA))
        => (~result.error /\ Deref(heap, result.normalized) = ExpertA)

C17_Witness ==
    /\ AggregatedOnce /\ options.method = "geometric" /\ ExpertA = ExpertB
    /\ AllPositive(ExpertA) /\ Len(ExpertA) = 2 /\ NumCrit(ExpertA) = 2
    /\ ExpertA[1][1] # ExpertA[2][2]
    /\ Deref(heap, result.normalized) = ExpertA

\* C17 (as stated): the geometric mean of two identical expert matrices is
\* that matrix, cell by cell, numbers with a zero component included
C17_IdenticalExperts ==
    (AggregatedOnce /\ options.method = "geometric" /\ ExpertA = ExpertB)
        => (~result.error /\ Deref(heap, result.normalized) = ExpertA)

SwappedOnce == pc = "swapped" /\ call.fn = "aggregateExpertEvaluations"
SameDimensions(a, b) == Len(a) = Len(b) /\ \A i \in 1..Len(a) : Len(a[i]) = Len(b[i])
SameAggregate ==
    /\ prev.error = result.error
    /\ Deref(heap, prev.normalized) = Deref(heap, result.normalized)

C19_MismatchFails ==
    (AggregatedOnce /\ ~SameDimensions(ExpertA, ExpertB)) => result.error

(***************************************************************************)
(* Claims checked under SpecLinguistic                                     *)
(***************************************************************************)
ConvertedToFuzzy ==
    /\ pc = "done"
    /\ \/ call.fn = "linguisticToFuzzyMatrix"
       \/ call.fn = "processHybridMatrix" /\ options.outputFormat = "fuzzy"
CellsIn == heap[matrix[1]]
CellsOut == heap[result.normalized[1]]
StringCells == {j \in 1..Len(CellsIn) : CellsIn[j].kind = "string"}

\* the characters of s between its first and its last character that is not
\* white space
Inner(s) ==
    IF \A i \in 1..Len(s) : s[i] \in WhiteSpace THEN <<>>
    ELSE SubSeq(s, CHOOSE a \in 1..Len(s) : s[a] \notin WhiteSpace /\ \A i \in 1..(a - 1) : s[i] \in WhiteSpace,
                   CHOOSE b \in 1..Len(s) : s[b] \notin WhiteSpace /\ \A i \in (b + 1)..Len(s) : s[i] \in WhiteSpace)
SameLetter(a, b) ==
    a = b \/ \E i \in 1..Len(UpperCase) : {a, b} = {UpperCase[i], LowerCase[i]}
SameButCase(s, t) == Len(s) = Len(t) /\ \A i \in 1..Len(s) : SameLetter(s[i], t[i])
\* the two strings differ in case and surrounding white space at most
SameTerm(s, t) == SameButCase(Inner(s), Inner(t))
\* a term or abbreviation of the scale, or a common abbreviation of one of
\* its terms, is the cell but for the cell's surrounding white space and case
InScale(s) ==
    \/ \E i \in 1..Len(options.linguisticScale) :
           \/ SameButCase(options.linguisticScale[i].term, Inner(s))
           \/ /\ options.linguisticScale[i].abbreviation # <<>>
              /\ SameButCase(options.linguisticScale[i].abbreviation, Inner(s))
    \/ \E a \in 1..Len(commonAbbrevs) :
           /\ SameButCase(commonAbbrevs[a][1], Inner(s))
           /\ \E i \in 1..Len(options.linguisticScale) :
                  SameButCase(options.linguisticScale[i].term, commonAbbrevs[a][2])
CaseAndSpaceIgnored ==
    \A j \in StringCells : \A k \in StringCells :
        SameTerm(CellsIn[j].chars, CellsIn[k].chars) => CellsOut[j] = CellsOut[k]
Neutral == <<Half64, Half64, Half64>>
\* triangularSpread(0.5, spread) for the spreads drawn: 0.2 by default
NeutralSpread ==
    IF options.defaultSpread = Undef THEN <<F64(<<2, 5>>), Half64, F64(<<3, 5>>)>>
    ELSE <<F64(<<1, 4>>), Half64, F64(<<3, 4>>)>>

\* C20 (as amended): every conversion of a linguistic cell to a fuzzy number
\* ignores the cell's case and surrounding white space and raises no error;
\* a cell that matches no term of the scale, no abbreviation and no common
\* abbreviation becomes (0.5, 0.5, 0.5) in linguisticToFuzzyMatrix and 0.5
\* with the configured spread in processHybridMatrix
C20_UnresolvedTermFallsBack ==
    ConvertedToFuzzy =>
        /\ ~result.error
        /\ CaseAndSpaceIgnored
        /\ \A j \in StringCells :
               ~InScale(CellsIn[j].chars) =>
                   CellsOut[j] = IF call.fn = "linguisticToFuzzyMatrix" THEN Neutral
                                 ELSE NeutralSpread

C20_Witness ==
    /\ ConvertedToFuzzy /\ call.fn = "processHybridMatrix"
    /\ CellsIn[1] = StringCell(<<" ", "H", " ">>) /\ CellsIn[2] = StringCell(<<"i", "h">>)
    /\ Len(options.linguisticScale) = 2
    /\ CellsOut[1] = HighTFN /\ CellsOut[2] = NeutralSpread /\ NeutralSpread # Neutral

\* C20 (as stated): every conversion of a linguistic cell to a fuzzy number
\* ignores case and surrounding white space, raises no error and maps a
\* term that is not in the scale to (0.5, 0.5, 0.5)
C20_UnresolvedTermIsNeutral ==
    ConvertedToFuzzy =>
        /\ ~result.error
        /\ CaseAndSpaceIgnored
        /\ \A j \in StringCells : ~InScale(CellsIn[j].chars) => CellsOut[j] = Neutral

(***************************************************************************)
(* Claims checked under SpecSubtract                                       *)
(***************************************************************************)
Le64(a, b) == ~Lt64(b, a)
WellFormed(tfn) == Le64(tfn[1], tfn[2]) /\ Le64(tfn[2], tfn[3])
Subtracted == pc = "done" /\ call.fn = "subtract"

\* C21: the difference of two well-formed triangular fuzzy numbers is
\* well-formed: its l is at most its m and its m at most its u
C21_DifferenceIsWellFormed ==
    (Subtracted /\ WellFormed(heap[1][1]) /\ WellFormed(heap[1][2]))
        => WellFormed(heap[result.normalized[1]][1])

C21_Witness ==
    /\ Subtracted /\ WellFormed(heap[1][1]) /\ WellFormed(heap[1][2])
    /\ heap[1][1] = <<Zero, F64(<<1, 10>>), F64(<<3, 10>>)>>
    /\ heap[1][2] = <<F64(Num(0 - 1)), F64(<<1, 10>>), F64(<<3, 10>>)>>
    /\ heap[2][1] = <<F64(<<0 - 3, 10>>), Zero, F64(<<13, 10>>)>>

(***************************************************************************)
(* Claims checked under SpecSensitivity                                    *)
(***************************************************************************)
Analyzed == pc \in {"analyzed", "done"}
Scenarios == result.scores
\* the scenarios that perturb one criterion, and the criterion each perturbs
Perturbing ==
    {k \in 2..Len(Scenarios) : Scenarios[k].changedCriterion # <<>>}
ChangedIndex(k) ==
    IF options.analysisType = "percentage" THEN k \div 2 ELSE k - 1
OatOrPercentage == options.analysisType \in {"oat", "percentage"}
SumOf(ws) == FoldSum(ws, 1, Zero)

\* C22: the weights of every scenario that runAnalysis adds to the base case
\* sum to 1
C22_ScenarioWeightsSumToOne ==
    Analyzed => \A k \in 2..Len(Scenarios) : SumOf(Scenarios[k].weights) = One

OthersOf(k) == (1..Len(weights)) \ {ChangedIndex(k)}

\* C23 (as amended): in every OAT and percentage scenario for criterion c the
\* weights of the other criteria stay in the proportion of their base
\* weights, s[i] * w[k] = s[k] * w[i]; in an OAT scenario over base weights
\* that sum to 1 the weight of c is not below its base weight, and above it
\* exactly when the base weight is more than 0 and less than 1
C23_OthersKeepProportion ==
    (Analyzed /\ OatOrPercentage) =>
        \A k \in Perturbing :
            /\ \A i \in OthersOf(k) : \A j \in OthersOf(k) :
                   Mul(Scenarios[k].weights[i], weights[j]) = Mul(Scenarios[k].weights[j], weights[i])
            /\ (options.analysisType = "oat" /\ SumOf(weights) = One) =>
                   \A c \in {ChangedIndex(k)} :
                       /\ Le(weights[c], Scenarios[k].weights[c])
                       /\ Lt(weights[c], Scenarios[k].weights[c])
                              <=> (Lt(Zero, weights[c]) /\ Lt(weights[c], One))

C23_Witness ==
    /\ Analyzed /\ options.analysisType = "oat"
    /\ weights = <<(<<2, 5>>), (<<2, 5>>), (<<1, 5>>)>>
    /\ Scenarios[2].weights = <<(<<3, 5>>), (<<4, 15>>), (<<2, 15>>)>>

\* C23 (as stated): in every OAT and percentage scenario for criterion c the
\* scenario weights of two other criteria of positive base weight are in the
\* ratio of their base weights, and in an OAT scenario the weight of c is
\* larger than its base weight
C23_OthersKeepRatio ==
    (Analyzed /\ OatOrPercentage) =>
        \A k \in Perturbing :
            /\ \A i \in OthersOf(k) : \A j \in OthersOf(k) :
                   (Lt(Zero, weights[i]) /\ Lt(Zero, weights[j])) =>
                       Div(Scenarios[k].weights[i], Scenarios[k].weights[j])
                           = Div(weights[i], weights[j])
            /\ options.analysisType = "oat" =>
                   Lt(weights[ChangedIndex(k)], Scenarios[k].weights[ChangedIndex(k)])

\* C24: no weight of an OAT or percentage scenario is negative
C24_WeightsAreNonNegative ==
    (Analyzed /\ OatOrPercentage) =>
        \A k \in Perturbing : \A i \in 1..Len(weights) : Le(Zero, Scenarios[k].weights[i])

Rendered == pc = "done" /\ call.fn = "rankAnalysis" /\ ~result.ranking.null /\ ~result.ranking.error
\* the rank of row i of the matrix in scenario k
RankIn(k, i) == (CHOOSE r \in 1..Len(Scenarios[k].rankings) : Scenarios[k].rankings[r].index = i)
RanksAcross(i) == {RankIn(k, i) : k \in 1..Len(Scenarios)}
TopOf(k) == Scenarios[k].rankings[1].index
Listed(name) ==
    \E x \in 1..Len(result.ranking.criticalCriteria) : result.ranking.criticalCriteria[x] = name

\* C25: the stability analysis reports for each alternative its least and
\* its greatest rank across the scenarios, with range 0 exactly when the rank
\* never changes, and lists a criterion as critical exactly when a scenario
\* that perturbs it has another top-ranked alternative than the base case
C25_StabilityAndCriticalCriteria ==
    Rendered =>
        /\ \A i \in 1..Len(matrix) :
               \A st \in {result.ranking.stability[AlternativeName(options.alternatives, i)]} :
                   /\ st.min \in RanksAcross(i) /\ \A r \in RanksAcross(i) : st.min <= r
                   /\ st.max \in RanksAcross(i) /\ \A r \in RanksAcross(i) : st.max >= r
                   /\ (st.range = 0) <=> (Cardinality(RanksAcross(i)) = 1)
        /\ \A c \in 1..Len(weights) :
               Listed(options.names[c])
                   <=> \E k \in Perturbing : ChangedIndex(k) = c /\ TopOf(k) # TopOf(1)

(***************************************************************************)
(* Claims checked under SpecBaseCase                                       *)
(***************************************************************************)
BaseCaseComputed == pc = "done" /\ call.fn = "calculateScores"
OrderOf(rankings) == Arr([r \in 1..Len(rankings) |-> rankings[r].index])

\* C28: the base case of the sensitivity view ranks the alternatives as the
\* calculator does, for every normalization, aggregation and direction
C28_BaseCaseMatchesCalculator ==
    BaseCaseComputed => OrderOf(result.scores) = OrderOf(prev.scores)

(***************************************************************************)
(* Claims checked under SpecOptions                                        *)
(***************************************************************************)
\* the method called directly with the parameter the caller supplied; the
\* parameter's default applies when the argument is undefined
DirectCall(name) ==
    IF name = <<"V", "I", "K", "O", "R">>
    THEN VIKOR(heap, matrix, weights, directions, Default(options.v, <<1, 2>>))
    ELSE IF name = <<"W", "A", "S", "P", "A", "S">>
    THEN WASPAS(heap, matrix, weights, directions, Default(options.lambda, <<1, 2>>))
    ELSE CODAS(heap, matrix, weights, directions, Default(options.tau, <<1, 50>>))

\* C26: calculateMCDM forwards v, lambda and tau unchanged, the value 0
\* included: with 'VIKOR', 'WASPAS' or 'CODAS' it returns what the method
\* returns when called directly with the supplied parameter, and the
\* defaults 0.5, 0.5 and 0.02 are used only when the option is absent
C26_OptionsAreForwarded ==
    (Dispatched /\ call.name \in ParametricNames) => SameOutcome(DirectCall(call.name))

(***************************************************************************)
(* Claims checked under SpecFuzzyMinimize                                  *)
(***************************************************************************)
FuzzyRanked == pc = "done" /\ call.fn = "fuzzyTOPSIS"

\* the fuzzy value of alternative i on the single criterion
FuzzyValueOf(i) == heap[matrix[i]][1]

\* every component of s is strictly smaller than the same component of t
StrictlySmaller(s, t) == Lt(s[1], t[1]) /\ Lt(s[2], t[2]) /\ Lt(s[3], t[3])

\* C27: with a single minimize criterion of positive weight and well-formed
\* positive fuzzy values, an alternative whose fuzzy value is componentwise
\* strictly smaller than another's gets a strictly higher closeness score
\* and a smaller rank number
C27_SmallerCostRanksHigher ==
    FuzzyRanked =>
        \A a \in Alts, b \in Alts :
            StrictlySmaller(FuzzyValueOf(a), FuzzyValueOf(b)) =>
                /\ Lt(result.scores[b], result.scores[a])
                /\ result.ranking[a] < result.ranking[b]

(***************************************************************************)
(* Claims checked under SpecFallback and SpecFallbackFair                  *)
(***************************************************************************)
Settled(r) == pc[r] \in {"returned", "thrown"}

\* the keys request r has invoked the operation with
KeysUsed(r) == {prev[r][k].key : k \in 1..Len(prev[r])}

\* some invocation of request r failed with a quota error
FailedOnQuota(r) == \E k \in 1..Len(prev[r]) : prev[r][k].outcome = "quota"

\* C29: with two API keys configured, a request whose operation fails with a
\* quota error on one key is re-run with the other key before
\* executeWithFallback reports failure, whatever the interleaving of the
\* requests that share currentKeyIndex
C29_QuotaFailureTriesOtherKey ==
    \A r \in Requests :
        (options.keys = 2 /\ pc[r] = "thrown" /\ FailedOnQuota(r)) =>
            KeysUsed(r) = {0, 1}

\* how the k-th invocation of request r ended
OutcomeOf(r, k) == prev[r][k].outcome

\* request r has invoked the operation once per key at most, and every
\* invocation but the last one failed with a quota error
InvokedOncePerKey(r) ==
    /\ Len(prev[r]) <= options.keys
    /\ \A k \in 1..Len(prev[r]) :
           /\ prev[r][k].key \in 0..(options.keys - 1)
           /\ \A n \in 1..Len(prev[r]) : prev[r][n].key = prev[r][k].key => n = k
           /\ k < Len(prev[r]) => OutcomeOf(r, k) = "quota"

\* request r has returned the result of its only successful invocation, the
\* last one
ReturnsFirstSuccess(r) ==
    pc[r] = "returned" =>
        /\ prev[r] # <<>> /\ OutcomeOf(r, Len(prev[r])) = "ok"
        /\ result[r] = [returned |-> TRUE, key |-> prev[r][Len(prev[r])].key, error |-> "none"]

\* request r has thrown the error of its last invocation; with no key
\* configured nothing is invoked and lastError is thrown undefined
ThrowsLastError(r) ==
    pc[r] = "thrown" =>
        IF prev[r] = <<>>
        THEN options.keys = 0 /\ result[r] = [returned |-> FALSE, key |-> 0 - 1, error |-> "undefined"]
        ELSE /\ OutcomeOf(r, Len(prev[r])) \in ErrorKinds
             /\ result[r] = [returned |-> FALSE, key |-> 0 - 1, error |-> OutcomeOf(r, Len(prev[r]))]

\* a step in which an invocation of request r ends with an error that is
\* not a quota error
RejectsOtherwise(r) ==
    /\ pc[r] = "awaiting"
    /\ prev'[r] # <<>> /\ prev'[r][Len(prev'[r])].outcome = "other"

====
